---- MODULE Spec2Model ----
(***************************************************************************)
(* A model of cloudcix_rest.controllers.ControllerBase: the validation     *)
(* pipeline (is_valid), the list validators (search, exclude, limit, page, *)
(* order) and the lazily built model instance.                             *)
(*                                                                         *)
(* Python values are records tagged with their type (Str, IntV, ...).  A str is *)
(* a sequence of one-character strings, so that split, strip, replace and  *)
(* int() are computed character by character as the interpreter does.  A   *)
(* dict is a sequence of <<key, value>> pairs in insertion order.          *)
(***************************************************************************)
EXTENDS FiniteSets, Integers, Sequences, TLC

(***************************************************************************)
(* Python values                                                           *)
(***************************************************************************)
None == [t |-> "None"]
Str(s) == [t |-> "str", s |-> s]
IntV(i) == [t |-> "int", i |-> i]
BoolV(b) == [t |-> "bool", b |-> b]
ListV(l) == [t |-> "list", l |-> l]
DictV(d) == [t |-> "dict", d |-> d]

(***************************************************************************)
(* Sequence helpers                                                        *)
(***************************************************************************)
Range(s) == {s[i] : i \in 1..Len(s)}

\* s[from..] (1-based), the Python slice s[from-1:]
DropFirst(s, n) == SubSeq(s, n + 1, Len(s))

(***************************************************************************)
(* str methods                                                             *)
(***************************************************************************)
Whitespace == {" ", "\t", "\n"}
Digits == {"0", "1", "2", "3", "4", "5", "6", "7", "8", "9"}

\* str.startswith(prefix)
StartsWith(s, prefix) ==
    /\ Len(s) >= Len(prefix)
    /\ SubSeq(s, 1, Len(prefix)) = prefix

\* str.lstrip(chars): drop every leading character that is in chars
RECURSIVE LStrip(_, _)
LStrip(s, chars) ==
    IF s # <<>> /\ Head(s) \in chars THEN LStrip(Tail(s), chars) ELSE s

\* str.rstrip(chars)
RECURSIVE RStrip(_, _)
RStrip(s, chars) ==
    IF s # <<>> /\ s[Len(s)] \in chars THEN RStrip(SubSeq(s, 1, Len(s) - 1), chars) ELSE s

\* str.strip()
Strip(s) == RStrip(LStrip(s, Whitespace), Whitespace)

\* str.lower() over the letters the inputs use
LowerChar(c) ==
    CASE c = "T" -> "t" [] c = "R" -> "r" [] c = "U" -> "u" [] c = "E" -> "e"
      [] c = "F" -> "f" [] c = "A" -> "a" [] c = "L" -> "l" [] c = "S" -> "s"
      [] OTHER -> c
Lower(s) == [i \in 1..Len(s) |-> LowerChar(s[i])]

\* str.split(sep): non-overlapping occurrences of sep, scanned left to right;
\* cur is the piece being collected
RECURSIVE SplitFrom(_, _, _)
SplitFrom(s, sep, cur) ==
    IF s = <<>> THEN <<cur>>
    ELSE IF StartsWith(s, sep) THEN <<cur>> \o SplitFrom(DropFirst(s, Len(sep)), sep, <<>>)
    ELSE SplitFrom(Tail(s), sep, Append(cur, Head(s)))
Split(s, sep) == SplitFrom(s, sep, <<>>)

\* sep.join(parts)
RECURSIVE Join(_, _)
Join(sep, parts) ==
    IF parts = <<>> THEN <<>>
    ELSE IF Len(parts) = 1 THEN parts[1]
    ELSE parts[1] \o sep \o Join(sep, Tail(parts))

\* str.replace(old, new): every non-overlapping occurrence, left to right
RECURSIVE Replace(_, _, _)
Replace(s, old, new) ==
    IF s = <<>> THEN <<>>
    ELSE IF StartsWith(s, old) THEN new \o Replace(DropFirst(s, Len(old)), old, new)
    ELSE <<Head(s)>> \o Replace(Tail(s), old, new)

\* filter(None, seq): keep the truthy (non-empty) strings
RECURSIVE FilterNone(_)
FilterNone(parts) ==
    IF parts = <<>> THEN <<>>
    ELSE IF Head(parts) = <<>> THEN FilterNone(Tail(parts))
    ELSE <<Head(parts)>> \o FilterNone(Tail(parts))

(***************************************************************************)
(* int(str): optional surrounding whitespace, an optional sign, then       *)
(* decimal digits in which single underscores may separate digits          *)
(***************************************************************************)
DigitVal(c) ==
    CASE c = "0" -> 0 [] c = "1" -> 1 [] c = "2" -> 2 [] c = "3" -> 3 [] c = "4" -> 4
      [] c = "5" -> 5 [] c = "6" -> 6 [] c = "7" -> 7 [] c = "8" -> 8 [] c = "9" -> 9

IsDigitString(s) ==
    /\ s # <<>>
    /\ s[1] \in Digits
    /\ s[Len(s)] \in Digits
    /\ \A i \in 1..Len(s) : s[i] \in Digits \cup {"_"}
    /\ \A i \in 1..(Len(s) - 1) : ~(s[i] = "_" /\ s[i + 1] = "_")

Unsigned(s) == IF s # <<>> /\ Head(s) \in {"-", "+"} THEN Tail(s) ELSE s

IsIntLiteral(s) == IsDigitString(Unsigned(Strip(s)))

RECURSIVE DigitsValue(_, _)
DigitsValue(s, acc) ==
    IF s = <<>> THEN acc
    ELSE IF Head(s) = "_" THEN DigitsValue(Tail(s), acc)
    ELSE DigitsValue(Tail(s), 10 * acc + DigitVal(Head(s)))

IntOfStr(s) ==
    LET body == Strip(s)
        mag  == DigitsValue(Unsigned(body), 0)
    IN IF body # <<>> /\ Head(body) = "-" THEN 0 - mag ELSE mag

(***************************************************************************)
(* dict methods; a dict is a sequence of <<key, value>> pairs              *)
(***************************************************************************)
DictKeys(d) == {d[i][1] : i \in 1..Len(d)}
DictHas(d, k) == k \in DictKeys(d)
DictGet(d, k) == d[CHOOSE i \in 1..Len(d) : d[i][1] = k][2]

\* d[k] = val: an existing key keeps its position
DictSet(d, k, val) ==
    IF DictHas(d, k)
    THEN [i \in 1..Len(d) |-> IF d[i][1] = k THEN <<k, val>> ELSE d[i]]
    ELSE Append(d, <<k, val>>)


(***************************************************************************)
(* String literals of the controller                                       *)
(***************************************************************************)
s_search == <<"s", "e", "a", "r", "c", "h">>
s_exclude == <<"e", "x", "c", "l", "u", "d", "e">>
s_limit == <<"l", "i", "m", "i", "t">>
s_page == <<"p", "a", "g", "e">>
s_order == <<"o", "r", "d", "e", "r">>
s_format == <<"f", "o", "r", "m", "a", "t">>
s_exclude__ == <<"e", "x", "c", "l", "u", "d", "e", "_", "_">>
s_in == <<"i", "n">>
s_range == <<"r", "a", "n", "g", "e">>
s_isnull == <<"i", "s", "n", "u", "l", "l">>
s_true == <<"t", "r", "u", "e">>
s_false == <<"f", "a", "l", "s", "e">>
s_year == <<"y", "e", "a", "r">>
s_month == <<"m", "o", "n", "t", "h">>
s_day == <<"d", "a", "y">>
s_week_day == <<"w", "e", "e", "k", "_", "d", "a", "y">>
s_hour == <<"h", "o", "u", "r">>
s_minute == <<"m", "i", "n", "u", "t", "e">>
s_dunder == <<"_", "_">>
s_comma == <<",">>
s_dash == <<"-">>
s_error_code == <<"e", "r", "r", "o", "r", "_", "c", "o", "d", "e">>
s_detail == <<"d", "e", "t", "a", "i", "l">>
s_comma_space == <<",", " ">>

\* LIST_PATTERN = re.compile(r'[\[\]()\'\"]'): the characters it matches
LIST_PATTERN == {"[", "]", "(", ")", "'", "\""}

\* LIST_PATTERN.sub('', value)
RECURSIVE LIST_PATTERN_sub(_)
LIST_PATTERN_sub(value) ==
    IF value = <<>> THEN <<>>
    ELSE IF Head(value) \in LIST_PATTERN THEN LIST_PATTERN_sub(Tail(value))
    ELSE <<Head(value)>> \o LIST_PATTERN_sub(Tail(value))

\* (v.strip() for v in value)
StripEach(parts) == [i \in 1..Len(parts) |-> Strip(parts[i])]

DatePartOps == {s_year, s_month, s_day, s_week_day, s_hour, s_minute}

\* The warnings are texts; a warning is modelled by the template it is
\* formatted from (kind, why) and the filter name formatted into it.
Warning(kind, why, name) == [kind |-> kind, why |-> why, name |-> name]


(***************************************************************************)
(* self.data: a QueryDict (key -> list of values, hasattr getlist) or a    *)
(* plain dict (key -> value)                                               *)
(***************************************************************************)
QueryDict(q) == [t |-> "QueryDict", q |-> q]

\* The <<key, ...>> pairs of either kind of data
DataPairs(d) == IF d.t = "QueryDict" THEN d.q ELSE d.d

\* MultiValueDict.__getitem__: the last value of the list ([] when empty)
LastValue(list) == IF list = <<>> THEN ListV(<<>>) ELSE list[Len(list)]

\* self.data.items() as a sequence of <<key, value>>
DataItems(d) ==
    IF d.t = "QueryDict"
    THEN [i \in 1..Len(d.q) |-> <<d.q[i][1], LastValue(d.q[i][2])>>]
    ELSE d.d

\* str(value) for the values a filter entry carries
StrOf(value) == value.s

(***************************************************************************)
(* validate_search                                                         *)
(***************************************************************************)
\* The compat dict built from the flat parameters
RECURSIVE SearchCompatItems(_, _)
SearchCompatItems(items, validation_order) ==
    IF items = <<>> THEN <<>>
    ELSE LET k == Head(items)[1]
             rest == SearchCompatItems(Tail(items), validation_order)
         IN IF k # s_format /\ k \notin Range(validation_order) /\ ~StartsWith(k, s_exclude__)
            THEN <<Head(items)>> \o rest
            ELSE rest

\* name.split('__') into (name_without_op, op)
NameWithoutOp(name) ==
    LET segments == Split(name, s_dunder)
    IN Join(s_dunder, SubSeq(segments, 1, Len(segments) - 1))

OpOf(name) ==
    LET segments == Split(name, s_dunder)
    IN segments[Len(segments)]

\* The check with the test of the prefix the wrong way round
SearchNotAField_prefix(search_fields, name) ==
    /\ ~DictHas(search_fields, name)
    /\ DictHas(search_fields, NameWithoutOp(name))

\* name not in search_fields and name_without_op not in search_fields
SearchNotAField(search_fields, name) ==
    /\ ~DictHas(search_fields, name)
    /\ ~DictHas(search_fields, NameWithoutOp(name))

\* name_without_op in search_fields and op not in search_fields[name_without_op]
SearchOpNotAllowed(search_fields, name) ==
    /\ DictHas(search_fields, NameWithoutOp(name))
    /\ OpOf(name) \notin Range(DictGet(search_fields, NameWithoutOp(name)))

\* The list with its empty tokens left in
SearchListValue_unfiltered(value) == StripEach(Split(LIST_PATTERN_sub(value), s_comma))

\* list(filter(None, (v.strip() for v in LIST_PATTERN.sub('', value).split(','))))
SearchListValue(value) == FilterNone(StripEach(Split(LIST_PATTERN_sub(value), s_comma)))

\* The check of the length with lists of 3 and more let through
SearchRangeInvalid_short(search_op, value) == search_op = s_range /\ Len(value) < 2

\* search_op == 'range' and len(list(value)) != 2
SearchRangeInvalid(search_op, value) == search_op = s_range /\ Len(value) # 2

\* The comparison made without lowering the value
SearchBoolean_cased(value) == BoolV(value = s_true)

\* value.lower() == 'true'
SearchBoolean(value) == BoolV(Lower(value) = s_true)

\* One turn of the loop over search.items(): the entry is either stored under
\* key with the coerced value, or dropped with a warning.
SearchItem(search_fields, name, raw) ==
    IF SearchNotAField(search_fields, name)
    THEN [keep |-> FALSE, warning |-> Warning("SearchFilterWarning", "invalid filter", name)]
    ELSE IF SearchOpNotAllowed(search_fields, name)
    THEN [keep |-> FALSE, warning |-> Warning("SearchFilterWarning", "invalid operator", name)]
    ELSE
      LET search_name == IF DictHas(search_fields, name) THEN name ELSE NameWithoutOp(name)
          \* None is the empty string here: filter(None, ...) drops both alike
          search_op == IF DictHas(search_fields, name) THEN <<>> ELSE OpOf(name)
          has_op == ~DictHas(search_fields, name)
          value == StrOf(raw)
          key == Join(s_dunder, FilterNone(<<search_name, search_op>>))
      IN IF has_op /\ search_op \in {s_in, s_range}
         THEN IF SearchRangeInvalid(search_op, SearchListValue(value))
              THEN [keep |-> FALSE, warning |-> Warning("SearchFilterWarning", "invalid range", name)]
              ELSE [keep |-> TRUE, key |-> key, value |-> ListV(SearchListValue(value))]
         ELSE IF (has_op /\ search_op = s_isnull) \/ Lower(value) \in {s_true, s_false}
         THEN [keep |-> TRUE, key |-> key, value |-> SearchBoolean(value)]
         ELSE IF has_op /\ search_op \in DatePartOps
         THEN IF IsIntLiteral(value)
              THEN [keep |-> TRUE, key |-> key, value |-> IntV(IntOfStr(value))]
              ELSE [keep |-> FALSE, warning |-> Warning("SearchFilterWarning", "invalid integer", name)]
         ELSE [keep |-> TRUE, key |-> key, value |-> Str(value)]

\* The loop that skips a refused entry without a warning
SearchStore_silent(acc, r) ==
    IF r.keep
    THEN [acc EXCEPT !.clean = DictSet(@, r.key, r.value)]
    ELSE acc

\* The loop: acc is [clean |-> clean_search, warnings |-> self._warnings]
SearchStore(acc, r) ==
    IF r.keep
    THEN [acc EXCEPT !.clean = DictSet(@, r.key, r.value)]
    ELSE [acc EXCEPT !.warnings = Append(@, r.warning)]

RECURSIVE SearchLoop(_, _, _)
SearchLoop(search_fields, items, acc) ==
    IF items = <<>> THEN acc
    ELSE SearchLoop(search_fields, Tail(items),
             SearchStore(acc, SearchItem(search_fields, Head(items)[1], Head(items)[2])))

\* validate_search(self, search), self being [data, cleaned_data, _errors,
\* _warnings]; the result carries the new self, the returned error code and
\* the exception raised, if any.
\* self.cleaned_data['search'] = clean_search
SearchSave(self, out) ==
    [self |-> [self EXCEPT !._warnings = out.warnings,
                           !.cleaned_data = DictSet(@, s_search, DictV(out.clean))],
     err |-> None, exc |-> ""]

\* The warning appended for flat keys whether or not a map was sent
SearchDeprecation_flat(self, search, compat) ==
    IF compat # <<>>
    THEN Append(self._warnings, Warning("DeprecationWarning", "search", <<>>))
    ELSE self._warnings

\* The deprecation warning of the compat form
SearchDeprecation(self, search, compat) ==
    IF search = None /\ compat # <<>>
    THEN Append(self._warnings, Warning("DeprecationWarning", "search", <<>>))
    ELSE self._warnings

SearchRun(Meta, self, search, compat) ==
    SearchSave(self, SearchLoop(Meta.search_fields,
                                IF search = None THEN compat ELSE search.d,
                                [clean |-> <<>>, warnings |-> SearchDeprecation(self, search, compat)]))

validate_search(Meta, self, search) ==
    IF search.t \notin {"None", "dict"}
    THEN [self |-> self, err |-> None, exc |-> "AttributeError"]
    ELSE SearchRun(Meta, self, search,
                   SearchCompatItems(DataItems(self.data), Meta.validation_order))

(***************************************************************************)
(* validate_exclude                                                        *)
(***************************************************************************)
\* The compat dict built from the flat parameters: a dict comprehension, so
\* two keys that become the same name leave one entry with the later value
RECURSIVE ExcludeCompatItems(_, _, _)
ExcludeCompatItems(items, validation_order, acc) ==
    IF items = <<>> THEN acc
    ELSE LET k == Head(items)[1]
         IN ExcludeCompatItems(Tail(items), validation_order,
                IF k # s_format /\ k \notin Range(validation_order) /\ StartsWith(k, s_exclude__)
                THEN DictSet(acc, Replace(k, s_exclude__, <<>>), Head(items)[2])
                ELSE acc)

\* name not in search_fields and name_without_op not in search_fields
ExcludeNotAField(search_fields, name) ==
    /\ ~DictHas(search_fields, name)
    /\ ~DictHas(search_fields, NameWithoutOp(name))

\* name_without_op in search_fields and op not in search_fields[name_without_op]
ExcludeOpNotAllowed(search_fields, name) ==
    /\ DictHas(search_fields, NameWithoutOp(name))
    /\ OpOf(name) \notin Range(DictGet(search_fields, NameWithoutOp(name)))

\* The list of exclude with its tokens left untrimmed
ExcludeListValue_unstripped(value) == FilterNone(Split(LIST_PATTERN_sub(value), s_comma))

\* list(filter(None, (v.strip() for v in LIST_PATTERN.sub('', value).split(','))))
ExcludeListValue(value) == FilterNone(StripEach(Split(LIST_PATTERN_sub(value), s_comma)))

\* exclude_op == 'range' and len(list(value)) != 2
ExcludeRangeInvalid(exclude_op, value) == exclude_op = s_range /\ Len(value) # 2

\* One turn of the loop over exclude.items()
ExcludeItem(search_fields, name, raw) ==
    IF ExcludeNotAField(search_fields, name)
    THEN [keep |-> FALSE, warning |-> Warning("ExcludeFilterWarning", "invalid filter", name)]
    ELSE IF ExcludeOpNotAllowed(search_fields, name)
    THEN [keep |-> FALSE, warning |-> Warning("ExcludeFilterWarning", "invalid operator", name)]
    ELSE
      LET exclude_name == IF DictHas(search_fields, name) THEN name ELSE NameWithoutOp(name)
          exclude_op == IF DictHas(search_fields, name) THEN <<>> ELSE OpOf(name)
          has_op == ~DictHas(search_fields, name)
          value == StrOf(raw)
          key == Join(s_dunder, FilterNone(<<exclude_name, exclude_op>>))
      IN IF has_op /\ exclude_op \in {s_in, s_range}
         THEN IF ExcludeRangeInvalid(exclude_op, ExcludeListValue(value))
              THEN [keep |-> FALSE, warning |-> Warning("ExcludeFilterWarning", "invalid range", name)]
              ELSE [keep |-> TRUE, key |-> key, value |-> ListV(ExcludeListValue(value))]
         ELSE IF (has_op /\ exclude_op = s_isnull) \/ Lower(value) \in {s_true, s_false}
         THEN [keep |-> TRUE, key |-> key, value |-> BoolV(Lower(value) = s_true)]
         ELSE IF has_op /\ exclude_op \in DatePartOps
         THEN IF IsIntLiteral(value)
              THEN [keep |-> TRUE, key |-> key, value |-> IntV(IntOfStr(value))]
              ELSE [keep |-> FALSE, warning |-> Warning("ExcludeFilterWarning", "invalid integer", name)]
         ELSE [keep |-> TRUE, key |-> key, value |-> Str(value)]

ExcludeStore(acc, r) ==
    IF r.keep
    THEN [acc EXCEPT !.clean = DictSet(@, r.key, r.value)]
    ELSE [acc EXCEPT !.warnings = Append(@, r.warning)]

RECURSIVE ExcludeLoop(_, _, _)
ExcludeLoop(search_fields, items, acc) ==
    IF items = <<>> THEN acc
    ELSE ExcludeLoop(search_fields, Tail(items),
             ExcludeStore(acc, ExcludeItem(search_fields, Head(items)[1], Head(items)[2])))

\* self.cleaned_data['exclude'] = clean_exclude
ExcludeSave(self, out) ==
    [self |-> [self EXCEPT !._warnings = out.warnings,
                           !.cleaned_data = DictSet(@, s_exclude, DictV(out.clean))],
     err |-> None, exc |-> ""]

\* The deprecation warning of the compat form
ExcludeDeprecation(self, exclude, compat) ==
    IF exclude = None /\ compat # <<>>
    THEN Append(self._warnings, Warning("DeprecationWarning", "exclude", <<>>))
    ELSE self._warnings

ExcludeRun(Meta, self, exclude, compat) ==
    ExcludeSave(self, ExcludeLoop(Meta.search_fields,
                                  IF exclude = None THEN compat ELSE exclude.d,
                                  [clean |-> <<>>, warnings |-> ExcludeDeprecation(self, exclude, compat)]))

validate_exclude(Meta, self, exclude) ==
    IF exclude.t \notin {"None", "dict"}
    THEN [self |-> self, err |-> None, exc |-> "AttributeError"]
    ELSE ExcludeRun(Meta, self, exclude,
                    ExcludeCompatItems(DataItems(self.data), Meta.validation_order, <<>>))

(***************************************************************************)
(* validate_limit, validate_page, validate_order                           *)
(***************************************************************************)
\* int(x): the exception it raises, "" when it returns
IntRaises(x) ==
    CASE x.t = "int" -> ""
      [] x.t = "bool" -> ""
      [] x.t = "str" -> IF IsIntLiteral(x.s) THEN "" ELSE "ValueError"
      [] OTHER -> "TypeError"

\* int(x) when it returns
IntOf(x) ==
    CASE x.t = "int" -> x.i
      [] x.t = "bool" -> IF x.b THEN 1 ELSE 0
      [] x.t = "str" -> IntOfStr(x.s)

\* The validator with 0 taken for a limit
validate_limit_zero(Meta, self, limit) ==
    LET value == IF IntRaises(limit) # "" THEN Meta.normal_list_limit
                 ELSE IF IntOf(limit) < 0 \/ IntOf(limit) > Meta.max_list_limit
                      THEN Meta.normal_list_limit
                      ELSE IntOf(limit)
    IN [self |-> [self EXCEPT !.cleaned_data = DictSet(@, s_limit, IntV(value))],
        err |-> None, exc |-> ""]

validate_limit(Meta, self, limit) ==
    LET value == IF IntRaises(limit) # "" THEN Meta.normal_list_limit
                 ELSE IF IntOf(limit) < 1 \/ IntOf(limit) > Meta.max_list_limit
                      THEN Meta.normal_list_limit
                      ELSE IntOf(limit)
    IN [self |-> [self EXCEPT !.cleaned_data = DictSet(@, s_limit, IntV(value))],
        err |-> None, exc |-> ""]

\* max(page, 0)
Max(a, b) == IF a >= b THEN a ELSE b

\* The validator without the floor at 0
validate_page_unfloored(Meta, self, page) ==
    LET value == IF IntRaises(page) # "" THEN 0 ELSE IntOf(page)
    IN [self |-> [self EXCEPT !.cleaned_data = DictSet(@, s_page, IntV(value))],
        err |-> None, exc |-> ""]

validate_page(Meta, self, page) ==
    LET value == IF IntRaises(page) # "" THEN 0 ELSE IntOf(page)
    IN [self |-> [self EXCEPT !.cleaned_data = DictSet(@, s_page, IntV(Max(value, 0)))],
        err |-> None, exc |-> ""]

validate_order(Meta, self, order) ==
    IF order = None /\ Meta.allowed_ordering = <<>>
    THEN [self |-> self, err |-> None, exc |-> "IndexError"]
    ELSE IF order.t \notin {"None", "str"}
    THEN [self |-> self, err |-> None, exc |-> "AttributeError"]
    ELSE
      LET given == IF order = None THEN Meta.allowed_ordering[1] ELSE order.s
          desc == StartsWith(given, s_dash)
          name == IF desc THEN LStrip(given, {"-"}) ELSE given
      IN IF name \in Range(Meta.allowed_ordering)
         THEN [self |-> [self EXCEPT !.cleaned_data =
                            DictSet(@, s_order, Str((IF desc THEN s_dash ELSE <<>>) \o name))],
               err |-> None, exc |-> ""]
         ELSE IF Meta.allowed_ordering = <<>>
         THEN [self |-> self, err |-> None, exc |-> "IndexError"]
         ELSE [self |-> [self EXCEPT !.cleaned_data =
                            DictSet(@, s_order, Str(Meta.allowed_ordering[1]))],
               err |-> None, exc |-> ""]


(***************************************************************************)
(* A validate_<field> method of a derived controller: it either stores the *)
(* cleaned value or returns an error code for its field.                   *)
(***************************************************************************)
ErrorCode(field) == <<"e", "r", "r", "_">> \o field

validate_field(field, self, value) ==
    IF value = None \/ value = Str(<<>>)
    THEN [self |-> self, err |-> Str(ErrorCode(field)), exc |-> ""]
    ELSE [self |-> [self EXCEPT !.cleaned_data = DictSet(@, field, value)],
          err |-> None, exc |-> ""]

(***************************************************************************)
(* __init__ and is_valid                                                   *)
(***************************************************************************)
BaseValidators == {s_search, s_exclude, s_limit, s_page, s_order}

RECURSIVE validate_funcs(_, _)
\* The dict filled from the last name of validation_order to the first
validate_funcs_reversed(Meta, fields) ==
    IF fields = <<>> THEN <<>>
    ELSE LET rest == validate_funcs(Meta, SubSeq(fields, 1, Len(fields) - 1))
             field == fields[Len(fields)]
         IN IF field \in BaseValidators \cup Meta.validate_methods /\ field \notin Range(rest)
            THEN <<field>> \o rest
            ELSE rest

\* self.validate_funcs: the names of validation_order that have a callable
\* validate_<name>, in order (a dict, so a repeated name counts once)
validate_funcs(Meta, fields) ==
    IF fields = <<>> THEN <<>>
    ELSE LET rest == validate_funcs(Meta, SubSeq(fields, 1, Len(fields) - 1))
             field == fields[Len(fields)]
         IN IF field \in BaseValidators \cup Meta.validate_methods /\ field \notin Range(rest)
            THEN Append(rest, field)
            ELSE rest

\* The dirty value as data[field] would give it: the last of several values
DirtyValue_last(data, field) ==
    LET got == IF data.t = "QueryDict"
               THEN IF DictHas(data.q, field) /\ DictGet(data.q, field) # <<>>
                    THEN DictGet(data.q, field)[Len(DictGet(data.q, field))]
                    ELSE None
               ELSE IF DictHas(data.d, field) THEN DictGet(data.d, field) ELSE None
    IN IF got.t = "str" THEN Str(Strip(got.s)) ELSE got

\* The dirty value handed to the validator of field
DirtyValue(data, field) ==
    LET list == IF DictHas(data.q, field) THEN DictGet(data.q, field) ELSE <<>>
        got == IF data.t = "QueryDict"
               THEN IF Len(list) = 0 THEN None
                    ELSE IF Len(list) = 1 THEN list[1]
                    ELSE [t |-> "list", l |-> list]
               ELSE IF DictHas(data.d, field) THEN DictGet(data.d, field) ELSE None
    IN IF got.t = "str" THEN Str(Strip(got.s)) ELSE got

\* settings.TRACER.start_span(f'validate_{field}', child_of=parent_span), of
\* a controller that was given a span: spans is the fields whose child span
\* was started, in order
start_span(self, field) == [self EXCEPT !.spans = Append(@, field)]

\* method(dirty_value)
CallValidator(Meta, field, self, dirty_value) ==
    CASE field = s_search -> validate_search(Meta, self, dirty_value)
      [] field = s_exclude -> validate_exclude(Meta, self, dirty_value)
      [] field = s_limit -> validate_limit(Meta, self, dirty_value)
      [] field = s_page -> validate_page(Meta, self, dirty_value)
      [] field = s_order -> validate_order(Meta, self, dirty_value)
      [] OTHER -> validate_field(field, self, dirty_value)

\* The loop of is_valid over self.validate_funcs.items(); an exception raised
\* by a validator leaves the loop with what was done so far
RECURSIVE IsValidLoop(_, _, _)
RECURSIVE IsValidAfter(_, _, _)
\* The loop that calls every validator, in partial mode too
IsValidLoop_unskipped(Meta, fields, self) ==
    IF fields = <<>> THEN [self |-> self, exc |-> ""]
    ELSE IsValidAfter(Meta, fields,
             CallValidator(Meta, Head(fields), start_span(self, Head(fields)),
                           DirtyValue(self.data, Head(fields))))

IsValidLoop(Meta, fields, self) ==
    IF fields = <<>> THEN [self |-> self, exc |-> ""]
    ELSE IF self.partial /\ ~DictHas(DataPairs(self.data), Head(fields))
    THEN IsValidLoop(Meta, Tail(fields), self)
    ELSE IsValidAfter(Meta, fields,
             CallValidator(Meta, Head(fields), start_span(self, Head(fields)),
                           DirtyValue(self.data, Head(fields))))

\* The loop that ends at the first error code
IsValidAfter_stops(Meta, fields, r) ==
    IF r.exc # "" THEN [self |-> r.self, exc |-> r.exc]
    ELSE IF r.err # None
    THEN [self |-> [r.self EXCEPT !._errors = DictSet(@, Head(fields), r.err)], exc |-> ""]
    ELSE IsValidLoop(Meta, Tail(fields), r.self)

\* The loop that writes a None to cleaned_data for a field with an error
IsValidAfter_defaults(Meta, fields, r) ==
    IF r.exc # "" THEN [self |-> r.self, exc |-> r.exc]
    ELSE IsValidLoop(Meta, Tail(fields),
             IF r.err # None
             THEN [r.self EXCEPT !._errors = DictSet(@, Head(fields), r.err),
                                 !.cleaned_data = DictSet(@, Head(fields), None)]
             ELSE r.self)

\* err = method(dirty_value); if err is not None: self._errors[field] = err
IsValidAfter(Meta, fields, r) ==
    IF r.exc # "" THEN [self |-> r.self, exc |-> r.exc]
    ELSE IsValidLoop(Meta, Tail(fields),
             IF r.err # None
             THEN [r.self EXCEPT !._errors = DictSet(@, Head(fields), r.err)]
             ELSE r.self)

\* self._validated = True; return self._errors == {}
IsValidReturn(r) ==
    IF r.exc # ""
    THEN [self |-> r.self, val |-> None, exc |-> r.exc]
    ELSE [self |-> [r.self EXCEPT !._validated = TRUE],
          val |-> BoolV(r.self._errors = <<>>), exc |-> ""]

\* is_valid(self): the new self, the returned boolean and the exception
is_valid(Meta, self) ==
    IsValidReturn(IsValidLoop(Meta, validate_funcs(Meta, Meta.validation_order), self))

(***************************************************************************)
(* The errors property and get_error_details.  errors is the application's *)
(* errors module: the codes it defines, each with its message.             *)
(***************************************************************************)
\* self._errors.values()
DictValues(d) == [i \in 1..Len(d) |-> d[i][2]]

\* The loop of get_error_details over error_codes:
\* detail = getattr(errors, code, None); a code without one is ignored
RECURSIVE ErrorDetailsLoop(_, _, _)
ErrorDetailsLoop(errors, error_codes, error_details) ==
    IF error_codes = <<>> THEN error_details
    ELSE ErrorDetailsLoop(errors, Tail(error_codes),
             IF DictHas(errors, Head(error_codes).s)
             THEN DictSet(error_details, Head(error_codes).s,
                      DictV(<< <<s_error_code, Head(error_codes)>>,
                               <<s_detail, DictGet(errors, Head(error_codes).s)>> >>))
             ELSE error_details)

get_error_details(errors, error_codes) == ErrorDetailsLoop(errors, error_codes, <<>>)

\* The loop of the property over self._errors.items():
\* acc is [errors |-> errors, missing |-> missing]
RECURSIVE ErrorsLoop(_, _, _)
ErrorsLoop(error_codes, items, acc) ==
    IF items = <<>> THEN acc
    ELSE ErrorsLoop(error_codes, Tail(items),
             IF DictHas(error_codes, Head(items)[2].s)
             THEN [acc EXCEPT !.errors = DictSet(@, Head(items)[1],
                                             DictGet(error_codes, Head(items)[2].s))]
             ELSE [acc EXCEPT !.missing = Append(@, Head(items)[2].s)])

\* The property that returns the map whatever is missing
ErrorsReturn_silent(acc) == [val |-> DictV(acc.errors), exc |-> ""]

\* raise KeyError(f'...; {", ".join(missing)}') if len(missing) > 0, else
\* return errors; of the message of the KeyError, val is the joined codes
ErrorsReturn(acc) ==
    IF Len(acc.missing) > 0
    THEN [val |-> Str(Join(s_comma_space, acc.missing)), exc |-> "KeyError"]
    ELSE [val |-> DictV(acc.errors), exc |-> ""]

(***************************************************************************)
(* memoize.  The cache is django.core.cache: a map from a key to a value   *)
(* and the time its entry expires, in seconds.  A cache key is the digest  *)
(* of the text of the method's name, args and kwargs; it is kept here as   *)
(* that triple (the digest of two different texts is taken as different).  *)
(***************************************************************************)
\* key_string = f'{method.__module__}{method.__name__}{args}{kwargs}' and its
\* blake2b digest
cache_key(name, args, kwargs) == <<name, args, kwargs>>

\* cache.get(cache_key): the value of an entry that has not expired, else None
cache_get(cache, key, now) ==
    IF DictHas(cache, key) /\ now < DictGet(cache, key).expires
    THEN DictGet(cache, key).value
    ELSE None

\* cache.set(cache_key, result, seconds)
cache_set(cache, key, result, seconds, now) ==
    DictSet(cache, key, [value |-> result, expires |-> now + seconds])

\* The wrapper that calls the method whenever the cached result is falsy
memoize_falsy(seconds, key, cache, now, method_result) ==
    IF cache_get(cache, key, now) \in {None, DictV(<<>>)}
    THEN [result |-> method_result, called |-> TRUE,
          cache |-> IF seconds > 0
                    THEN cache_set(cache, key, method_result, seconds, now)
                    ELSE cache]
    ELSE [result |-> cache_get(cache, key, now), called |-> FALSE, cache |-> cache]

\* The wrapper x of memoize(seconds) around a method: method_result is what
\* method(*args, **kwargs) returns, called is whether the wrapper called it
memoize(seconds, key, cache, now, method_result) ==
    IF cache_get(cache, key, now) = None
    THEN [result |-> method_result, called |-> TRUE,
          cache |-> IF seconds > 0
                    THEN cache_set(cache, key, method_result, seconds, now)
                    ELSE cache]
    ELSE [result |-> cache_get(cache, key, now), called |-> FALSE, cache |-> cache]

\* language_id=language_id, which is None for a request without a user
LanguageKwargs == << <<"language_id", None>> >>

\* @memoize(seconds=3600) def get_error_details(*error_codes, language_id=None)
memoized_get_error_details(errors, error_codes, kwargs, cache, now) ==
    memoize(3600, cache_key("get_error_details", error_codes, kwargs), cache, now,
            DictV(get_error_details(errors, error_codes)))

\* The rest of the property, m being what the call of get_error_details gave
ErrorsAfter(self, m) ==
    [ret |-> ErrorsReturn(ErrorsLoop(m.result.d, self._errors,
                                     [errors |-> <<>>, missing |-> <<>>])),
     memo |-> m]

\* ControllerBase.errors
ControllerBase_errors(errors, self, cache, now) ==
    ErrorsAfter(self, memoized_get_error_details(errors, DictValues(self._errors),
                                                 LanguageKwargs, cache, now))

\* Methods under memoize: get_error_details as the source wraps it; detail,
\* the getattr(errors, code, None) of its loop, which returns None for a code
\* the module lacks, wrapped the same way; and get_error_details under the
\* default memoize(seconds=0)
Wrapped ==
    {[name |-> "get_error_details", seconds |-> 3600],
     [name |-> "detail", seconds |-> 3600],
     [name |-> "get_error_details_0", seconds |-> 0]}

\* What the method returns for args, with errors the module as it is now
Method(name, errors, args) ==
    IF name = "detail"
    THEN IF DictHas(errors, args[1].s) THEN DictGet(errors, args[1].s) ELSE None
    ELSE DictV(get_error_details(errors, args))

(***************************************************************************)
(* The instance property.  A model instance is a reference into records,   *)
(* the attributes of each live model object.                               *)
(***************************************************************************)
Ref(id) == [t |-> "Model", id |-> id]

\* {field.name for field in self.Meta.model._meta.fields}
model_fields(Meta) == Range(Meta.model.fields)

\* self.Meta.model(**kwargs): a keyword that is not a field is a TypeError;
\* a field that is not given takes its default
ModelInitRaises(Meta, kwargs) == ~(DictKeys(kwargs) \subseteq model_fields(Meta))

ModelInit(Meta, kwargs) ==
    [f \in model_fields(Meta) |-> IF DictHas(kwargs, f) THEN DictGet(kwargs, f) ELSE None]

RECURSIVE SetAttrs(_, _, _)
\* The loop that sets every entry of cleaned_data on the record
SetAttrs_all(attrs, items, fields) ==
    IF items = <<>> THEN attrs
    ELSE SetAttrs((Head(items)[1] :> Head(items)[2]) @@ attrs, Tail(items), fields)

\* for k, v in self.cleaned_data.items(): if k in model_fields: setattr(...)
SetAttrs(attrs, items, fields) ==
    IF items = <<>> THEN attrs
    ELSE SetAttrs(IF Head(items)[1] \in fields
                  THEN [attrs EXCEPT ![Head(items)[1]] = Head(items)[2]]
                  ELSE attrs,
                  Tail(items), fields)

\* The identity of the record a create builds
NewId(recs) == CHOOSE id \in 1..(Cardinality(DOMAIN recs) + 1) : id \notin DOMAIN recs

\* The checks without the one of _validated
InstanceRefused_unvalidated(Meta, self) ==
    \/ Meta.model = None
    \/ self._errors # <<>>

\* The three checks that raise AttributeError
InstanceRefused(Meta, self) ==
    \/ Meta.model = None
    \/ ~self._validated
    \/ self._errors # <<>>

\* The property that sets the prepared flag before its checks
InstanceBuild_flagged(Meta, self, recs) ==
    IF InstanceRefused(Meta, self)
    THEN [self |-> [self EXCEPT !._instance_prepared = TRUE], records |-> recs,
          val |-> None, exc |-> "AttributeError"]
    ELSE IF self._instance # None
    THEN [self |-> [self EXCEPT !._instance_prepared = TRUE],
          records |-> [recs EXCEPT ![self._instance.id] =
                           SetAttrs(@, self.cleaned_data, model_fields(Meta))],
          val |-> self._instance, exc |-> ""]
    ELSE IF ModelInitRaises(Meta, self.cleaned_data)
    THEN [self |-> self, records |-> recs, val |-> None, exc |-> "TypeError"]
    ELSE [self |-> [self EXCEPT !._instance = Ref(NewId(recs)), !._instance_prepared = TRUE],
          records |-> (NewId(recs) :> ModelInit(Meta, self.cleaned_data)) @@ recs,
          val |-> Ref(NewId(recs)), exc |-> ""]

\* The create and update cases of instance, once the checks have passed
InstanceBuild(Meta, self, recs) ==
    IF InstanceRefused(Meta, self)
    THEN [self |-> self, records |-> recs, val |-> None, exc |-> "AttributeError"]
    ELSE IF self._instance # None
    THEN [self |-> [self EXCEPT !._instance_prepared = TRUE],
          records |-> [recs EXCEPT ![self._instance.id] =
                           SetAttrs(@, self.cleaned_data, model_fields(Meta))],
          val |-> self._instance, exc |-> ""]
    ELSE IF ModelInitRaises(Meta, self.cleaned_data)
    THEN [self |-> self, records |-> recs, val |-> None, exc |-> "TypeError"]
    ELSE [self |-> [self EXCEPT !._instance = Ref(NewId(recs)), !._instance_prepared = TRUE],
          records |-> (NewId(recs) :> ModelInit(Meta, self.cleaned_data)) @@ recs,
          val |-> Ref(NewId(recs)), exc |-> ""]

\* The property without its _instance_prepared shortcut
instance_unmemoized(Meta, self, recs) == InstanceBuild(Meta, self, recs)

\* instance(self): the new self, the new records, the returned reference and
\* the exception
instance(Meta, self, recs) ==
    IF self._instance_prepared
    THEN [self |-> self, records |-> recs, val |-> self._instance, exc |-> ""]
    ELSE InstanceBuild(Meta, self, recs)

(***************************************************************************)
(* Inputs: field names, operators and raw values of the requests checked   *)
(***************************************************************************)
f_name == <<"n", "a", "m", "e">>
f_id == <<"i", "d">>
f_created == <<"c", "r", "e", "a", "t", "e", "d">>
f_age == <<"a", "g", "e">>
f_note == <<"n", "o", "t", "e">>
f_bogus == <<"b", "o", "g", "u", "s">>
f_rule == <<"r", "u", "l", "e">>
f_a == <<"a">>
f_order == <<"o", "r", "d", "e", "r">>
op_icontains == <<"i", "c", "o", "n", "t", "a", "i", "n", "s">>
op_gt == <<"g", "t">>
op_b == <<"b">>
v_empty == <<>>
v_range2 == <<"(", "1", "0", ",", " ", "1", "5", ")">>
v_range3 == <<"(", "1", "0", ",", " ", "1", "5", ",", " ", "2", "0", ")">>
v_range1 == <<"(", "1", "0", ")">>
v_list == <<"[", "a", ",", " ", "b", ",", " ", "b", "]">>
v_brackets == <<"[", "]">>
v_gaps == <<" ", "a", ",", ",", " ", "'", "b", "'", " ", ",">>
v_abc == <<"a", "b", "c">>
v_true == <<"t", "r", "u", "e">>
v_TRUE == <<"T", "R", "U", "E">>
v_False == <<"F", "a", "l", "s", "e">>
v_padded == <<" ", "x", " ">>
v_2020 == <<"2", "0", "2", "0">>
v_neg == <<"-", "5">>
v_zero == <<"0">>
v_one == <<"1">>
v_seven == <<"7">>
v_max == <<"1", "0", "0">>
v_over == <<"1", "0", "1">>
v_plus == <<"+", "5">>
v_under == <<"1", "_", "0">>
v_float == <<"5", ".", "0">>
v_padint == <<" ", "7", " ">>
v_name == <<"n", "a", "m", "e">>
v_dname == <<"-", "n", "a", "m", "e">>
v_ddname == <<"-", "-", "n", "a", "m", "e">>
v_did == <<"-", "i", "d">>
v_dbogus == <<"-", "b", "o", "g", "u", "s">>
v_dash == <<"-">>
v_bogus == <<"b", "o", "g", "u", "s">>
v_name_d == <<"n", "a", "m", "e", "-">>

\* name__op
Dunder(name, op) == name \o s_dunder \o op

(***************************************************************************)
(* Controller classes: the Meta of ControllerBase and of derived           *)
(* controllers, with the validate_<name> methods the derived class adds    *)
(***************************************************************************)
DefaultValidationOrder == <<s_search, s_exclude, s_limit, s_page, s_order>>

\* ControllerBase.Meta as declared
BaseMeta ==
    [allowed_ordering |-> <<>>, max_list_limit |-> 100, model |-> None,
     normal_list_limit |-> 50, search_fields |-> <<>>,
     validation_order |-> DefaultValidationOrder, validate_methods |-> {}]

\* A list controller
ListMeta ==
    [BaseMeta EXCEPT
        !.allowed_ordering = <<f_name, f_id>>,
        !.search_fields = << <<f_name, <<s_in, op_icontains>> >>,
                             <<f_id, <<op_gt, s_in, s_isnull, s_range>> >>,
                             <<f_created, <<s_year, s_range, s_isnull>> >>,
                             <<f_a, <<s_in>> >>,
                             <<Dunder(f_a, op_b), <<>> >>,
                             <<f_order, <<s_in>> >>,
                             <<Dunder(f_rule, s_exclude), <<s_in>> >> >>]

\* A create / update controller over a model with the fields name and age;
\* it has no validate_id
ItemMeta ==
    [BaseMeta EXCEPT
        !.model = [t |-> "ModelClass", fields |-> <<f_id, f_name, f_age>>],
        !.validation_order = <<f_name, f_id, f_age>>,
        !.validate_methods = {f_name, f_age}]

\* The same with a validated field (note) that is not a model field, and
\* with the list parameters
MixedMeta ==
    [ItemMeta EXCEPT
        !.allowed_ordering = <<f_name>>,
        !.validation_order = <<f_name, f_note, s_limit>>,
        !.validate_methods = {f_name, f_note}]

\* The messages of the errors module
m_name == <<"N">>
m_age == <<"A">>
m_note == <<"O">>

\* errors modules: one that defines every code of the controllers, one that
\* defines the code of age only, and one that defines none
AllErrors ==
    << <<ErrorCode(f_name), Str(m_name)>>, <<ErrorCode(f_age), Str(m_age)>>,
       <<ErrorCode(f_note), Str(m_note)>> >>
AgeErrors == << <<ErrorCode(f_age), Str(m_age)>> >>
NoErrors == <<>>


(***************************************************************************)
(* Requests                                                                *)
(***************************************************************************)
MaxEntries == 2
MaxPasses == 2

FilterNames ==
    {f_name, Dunder(f_name, s_in), Dunder(f_name, op_icontains), Dunder(f_name, f_bogus),
     Dunder(f_id, s_range), Dunder(f_id, s_in), Dunder(f_id, s_isnull), Dunder(f_id, op_gt),
     Dunder(f_created, s_year), Dunder(f_created, s_range),
     f_bogus, Dunder(f_bogus, s_in), Dunder(f_a, op_b), Dunder(f_a, s_in), f_order,
     Dunder(Dunder(f_rule, s_exclude), s_in)}

FilterValues ==
    {v_empty, v_range2, v_range3, v_range1, v_list, v_brackets, v_gaps, v_abc,
     v_true, v_TRUE, v_False, v_padded, v_2020, v_neg}

\* Maps of several entries, over fewer names and values
FewNames == {Dunder(f_name, s_in), f_bogus, Dunder(f_id, s_range), Dunder(f_created, s_range)}
FewValues == {v_range2, v_range3, v_list}

\* The maps (as item sequences, no name twice) of at most MaxEntries entries
RECURSIVE FilterMapsOfLen(_)
FilterMapsOfLen(n) ==
    IF n = 0 THEN {<<>>}
    ELSE {Append(m, <<k, Str(val)>>) :
             m \in FilterMapsOfLen(n - 1), k \in FewNames, val \in FewValues}

FilterMaps ==
    {<< <<k, Str(val)>> >> : k \in FilterNames, val \in FilterValues}
    \cup {m \in UNION {FilterMapsOfLen(n) : n \in 0..MaxEntries} :
             \A i, j \in 1..Len(m) : i # j => m[i][1] # m[j][1]}

\* The structured grammar: search[name]=value, as the deepObject middleware
\* leaves it in the QueryDict
DeepData(key, m) == QueryDict(<< <<key, <<DictV(m)>> >> >>)

\* The legacy grammar: name=value, or exclude__name=value
FlatData(prefix, m) == QueryDict([i \in 1..Len(m) |-> <<prefix \o m[i][1], <<m[i][2]>> >>])

FilterData ==
    {DeepData(s_search, m) : m \in FilterMaps}
    \cup {DeepData(s_exclude, m) : m \in FilterMaps}
    \cup {FlatData(<<>>, m) : m \in FilterMaps}
    \cup {FlatData(s_exclude__, m) : m \in FilterMaps}

\* search=abc, search= and search=abc&search=[a, b, b]: a text, not a
\* deepObject, under the key of a filter map
TextData ==
    {QueryDict(<< <<k, val>> >>) :
        k \in {s_search, s_exclude},
        val \in {<<Str(v_abc)>>, <<Str(v_empty)>>, <<Str(v_abc), Str(v_list)>>}}

\* Requests with filters for search and for exclude, exclude first: as two
\* structured maps, and as flat keys
BothData ==
    {QueryDict(<< <<s_exclude, <<DictV(<< <<f_bogus, Str(v_abc)>> >>)>> >>,
                  <<s_search, <<DictV(<< <<f_bogus, Str(v_abc)>> >>)>> >> >>),
     QueryDict(<< <<s_exclude__ \o f_bogus, <<Str(v_abc)>> >>,
                  <<Dunder(f_id, s_range), <<Str(v_range3)>> >> >>)}

\* Requests in both grammars at once: a structured map for one validator (an
\* empty one too) beside flat keys for search and for exclude
TwoGrammarData ==
    {QueryDict(<< <<k, <<DictV(m)>> >>,
                  <<Dunder(f_id, s_in), <<Str(v_list)>> >>,
                  <<s_exclude__ \o f_name, <<Str(v_abc)>> >> >>) :
        k \in {s_search, s_exclude},
        m \in {<<>>, << <<Dunder(f_name, s_in), Str(v_list)>> >>}}
    \cup {QueryDict(<< <<s_search, <<DictV(<<>>)>> >>,
                       <<s_exclude, <<DictV(<< <<f_bogus, Str(v_abc)>> >>)>> >>,
                       <<f_name, <<Str(v_abc)>> >> >>),
            QueryDict(<< <<s_search, <<DictV(<< <<Dunder(f_name, s_in), Str(v_list)>> >>)>> >>,
                         <<Dunder(f_name, s_in), <<Str(v_abc)>> >> >>)}

PagingValues ==
    {v_empty, v_abc, v_neg, v_zero, v_one, v_seven, v_max, v_over, v_plus, v_under, v_float,
     v_padint, v_name, v_dname, v_ddname, v_did, v_dbogus, v_dash, v_bogus, v_name_d}

PagingData ==
    {QueryDict(<< <<k, <<Str(val)>> >> >>) : k \in {s_limit, s_page, s_order}, val \in PagingValues}
    \cup {QueryDict(<< <<k, <<Str(v_one), Str(v_seven)>> >> >>) : k \in {s_limit, s_page, s_order}}
    \cup {DictV(<< <<k, val>> >>) :
             k \in {s_limit, s_page}, val \in {IntV(0), IntV(7), IntV(101), IntV(0 - 3), None}}

ItemData ==
    {QueryDict(n \o a \o o \o l) :
        n \in {<<>>, << <<f_name, <<Str(v_abc)>> >> >>, << <<f_name, <<Str(v_empty)>> >> >>,
               << <<f_name, <<Str(v_abc), Str(v_padded)>> >> >>},
        a \in {<<>>, << <<f_age, <<Str(v_seven)>> >> >>},
        o \in {<<>>, << <<f_note, <<Str(v_padded)>> >> >>},
        l \in {<<>>, << <<s_limit, <<Str(v_seven)>> >> >>}}

\* The record an update controller is given: its fields, and an attribute
\* (note) that is not a field of the model
PriorRecord(Meta) == [f \in model_fields(Meta) \cup {f_note} |-> Str(<<"o", "l", "d">>)]

(***************************************************************************)
(* The controller and its callers                                          *)
(***************************************************************************)
VARIABLES Meta, data, partial, cleaned_data, _errors, _warnings, _validated,
          _instance, _instance_prepared, records, passes, ret, errors, spans,
          cache, now, memo, calls

vars == <<Meta, data, partial, cleaned_data, _errors, _warnings, _validated,
          _instance, _instance_prepared, records, passes, ret, errors, spans,
          cache, now, memo, calls>>

\* The cache and the clock, the last direct call of a wrapper x (memo), and
\* the last call each wrapper made of its method, with its time (calls)
memo_vars == <<cache, now, memo, calls>>

Self ==
    [data |-> data, partial |-> partial, cleaned_data |-> cleaned_data, _errors |-> _errors,
     _warnings |-> _warnings, _validated |-> _validated, _instance |-> _instance,
     _instance_prepared |-> _instance_prepared, spans |-> spans]

\* ControllerBase.__init__(instance=..., data=..., partial=...)
\* An empty cache, and no wrapper called
MemoInit ==
    /\ cache = <<>>
    /\ now = 0
    /\ memo = [key |-> cache_key("", <<>>, <<>>), result |-> None, called |-> FALSE]
    /\ calls = <<>>

\* The cache and the calls after the call m of the wrapper of key
MemoDone(key, m) ==
    /\ cache' = m.cache
    /\ calls' = IF m.called
                THEN DictSet(calls, key, [result |-> m.result, at |-> now])
                ELSE calls
    /\ now' = now

Init ==
    /\ \/ Meta = ListMeta /\ data \in FilterData \cup TextData \cup BothData \cup TwoGrammarData
                                        \cup PagingData
            /\ _instance = None
            /\ errors = AllErrors
       \/ Meta = BaseMeta /\ data \in PagingData /\ _instance = None
            /\ errors = AllErrors
       \/ Meta \in {ItemMeta, MixedMeta} /\ data \in ItemData /\ _instance \in {None, Ref(1)}
            /\ errors \in {AllErrors, AgeErrors, NoErrors}
    /\ partial \in BOOLEAN
    /\ cleaned_data = <<>>
    /\ _errors = <<>>
    /\ _warnings = <<>>
    /\ _validated = FALSE
    /\ _instance_prepared = FALSE
    /\ records = IF _instance = None THEN <<>> ELSE 1 :> PriorRecord(Meta)
    /\ passes = 0
    /\ spans = <<>>
    /\ ret = [op |-> "__init__", val |-> None, exc |-> ""]
    /\ MemoInit

\* The controller after a call that returned or raised r
IsValidDone(r) ==
    /\ cleaned_data' = r.self.cleaned_data
    /\ _errors' = r.self._errors
    /\ _warnings' = r.self._warnings
    /\ _validated' = r.self._validated
    /\ spans' = r.self.spans
    /\ ret' = [op |-> "is_valid", val |-> r.val, exc |-> r.exc]

\* controller.is_valid()
IsValid ==
    /\ passes < MaxPasses
    /\ IsValidDone(is_valid(Meta, Self))
    /\ passes' = passes + 1
    /\ UNCHANGED <<Meta, data, partial, _instance, _instance_prepared, records, errors>>
    /\ UNCHANGED memo_vars

InstanceDone(r) ==
    /\ _instance' = r.self._instance
    /\ _instance_prepared' = r.self._instance_prepared
    /\ records' = r.records
    /\ ret' = [op |-> "instance", val |-> r.val, exc |-> r.exc]

\* controller.instance
ReadInstance ==
    /\ InstanceDone(instance(Meta, Self, records))
    /\ UNCHANGED <<Meta, data, partial, cleaned_data, _errors, _warnings, _validated, passes,
                   errors, spans>>
    /\ UNCHANGED memo_vars

\* The view changes an entry of controller.cleaned_data after validation
CallerSetsCleanedData ==
    /\ Meta.model # None
    /\ _validated
    /\ \E k \in {f_name, f_note} :
          cleaned_data' = DictSet(cleaned_data, k, Str(v_name))
    /\ ret' = [op |-> "cleaned_data", val |-> None, exc |-> ""]
    /\ UNCHANGED <<Meta, data, partial, _errors, _warnings, _validated,
                   _instance, _instance_prepared, records, passes, errors, spans>>
    /\ UNCHANGED memo_vars

\* The view changes an attribute of the record it holds
CallerSetsAttribute ==
    /\ _instance # None
    /\ records' = [records EXCEPT ![_instance.id][f_name] = Str(v_bogus)]
    /\ ret' = [op |-> "setattr", val |-> None, exc |-> ""]
    /\ UNCHANGED <<Meta, data, partial, cleaned_data, _errors, _warnings, _validated,
                   _instance, _instance_prepared, passes, errors, spans>>
    /\ UNCHANGED memo_vars

\* controller.errors
ErrorsDone(r) ==
    /\ ret' = [op |-> "errors", val |-> r.ret.val, exc |-> r.ret.exc]
    /\ MemoDone(cache_key("get_error_details", DictValues(_errors), LanguageKwargs), r.memo)
    /\ memo' = memo

ReadErrors ==
    /\ ErrorsDone(ControllerBase_errors(errors, Self, cache, now))
    /\ UNCHANGED <<Meta, data, partial, cleaned_data, _errors, _warnings, _validated,
                   _instance, _instance_prepared, records, passes, errors, spans>>

Next ==
    \/ IsValid
    \/ ReadInstance
    \/ ReadErrors
    \/ CallerSetsCleanedData
    \/ CallerSetsAttribute

Spec == Init /\ [][Next]_vars

(***************************************************************************)
(* The wrappers of memoize called over time, while the clock advances and *)
(* the errors module is replaced by a deployment.  The controller is one  *)
(* that is not used.                                                      *)
(***************************************************************************)
MaxTicks == 2

\* The arguments of the calls: the code of name
WrappedArgs == {<<Str(ErrorCode(f_name))>>}

MemoController ==
    /\ Meta = BaseMeta /\ data = QueryDict(<<>>) /\ partial = FALSE
    /\ cleaned_data = <<>> /\ _errors = <<>> /\ _warnings = <<>>
    /\ _validated = FALSE /\ _instance = None /\ _instance_prepared = FALSE
    /\ records = <<>> /\ passes = 0 /\ spans = <<>>
    /\ ret = [op |-> "__init__", val |-> None, exc |-> ""]

InitMemo ==
    /\ MemoController
    /\ errors \in {NoErrors, AllErrors}
    /\ MemoInit

\* x(*args, **kwargs) of the wrapper w
CallWrapped(w, args, kwargs) ==
    /\ MemoDone(cache_key(w.name, args, kwargs),
                memoize(w.seconds, cache_key(w.name, args, kwargs), cache, now,
                        Method(w.name, errors, args)))
    /\ memo' = [key |-> cache_key(w.name, args, kwargs),
                result |-> memoize(w.seconds, cache_key(w.name, args, kwargs), cache, now,
                                   Method(w.name, errors, args)).result,
                called |-> memoize(w.seconds, cache_key(w.name, args, kwargs), cache, now,
                                   Method(w.name, errors, args)).called]
    /\ UNCHANGED <<Meta, data, partial, cleaned_data, _errors, _warnings, _validated,
                   _instance, _instance_prepared, records, passes, ret, errors, spans>>

Call == \E w \in Wrapped, args \in WrappedArgs : CallWrapped(w, args, LanguageKwargs)

\* Half an hour passes
Tick ==
    /\ now < MaxTicks * 1800
    /\ now' = now + 1800
    /\ UNCHANGED <<Meta, data, partial, cleaned_data, _errors, _warnings, _validated,
                   _instance, _instance_prepared, records, passes, ret, errors, spans,
                   cache, memo, calls>>

\* A deployment replaces the errors module; the cache outlives it
Deploy ==
    /\ errors' \in {NoErrors, AllErrors} \ {errors}
    /\ UNCHANGED <<Meta, data, partial, cleaned_data, _errors, _warnings, _validated,
                   _instance, _instance_prepared, records, passes, ret, spans>>
    /\ UNCHANGED memo_vars

NextMemo ==
    \/ Call
    \/ Tick
    \/ Deploy

SpecMemo == InitMemo /\ [][NextMemo]_vars


(***************************************************************************)
(* Properties                                                              *)
(***************************************************************************)
\* The pass of is_valid has run once, and returned
FirstPassDone == passes = 1 /\ ret.op = "is_valid" /\ ret.exc = ""

\* C1: a read of instance made while Meta.model is None, or before is_valid
\* has completed, or with a non-empty error map raises AttributeError; it
\* returns no record and leaves the stored record, the prepared flag and
\* every record as they were, with or without a prior record.
C1_InstanceRefused ==
    [][(ReadInstance /\ (Meta.model = None \/ ~_validated \/ _errors # <<>>))
        => /\ ret'.exc = "AttributeError"
           /\ ret'.val = None
           /\ ~_instance_prepared'
           /\ UNCHANGED <<_instance, _instance_prepared, records>>]_vars

\* An update controller whose pass found an error was read, and refused
C1_Witness ==
    /\ ret.op = "instance" /\ ret.exc = "AttributeError"
    /\ Meta.model # None /\ _validated /\ _errors # <<>>
    /\ _instance = Ref(1) /\ records[1] = PriorRecord(Meta)


\* C2: once is_valid has returned True, the first read of instance that
\* returns builds the record (a new one in create mode, the prior one patched
\* in update mode), and every later read returns that same record and changes
\* neither a record nor cleaned_data, whatever was changed in between.
C2_InstanceMemoized ==
    [][/\ (ReadInstance /\ _instance_prepared)
            => /\ ret'.exc = "" /\ ret'.val = _instance
               /\ UNCHANGED <<_instance, _instance_prepared, records, cleaned_data>>
       /\ (ReadInstance /\ ~_instance_prepared /\ ret'.exc = "")
            => /\ _validated /\ _errors = <<>>
               /\ _instance_prepared' /\ ret'.val = _instance'
               /\ IF _instance = None
                  THEN /\ _instance'.id \notin DOMAIN records
                       /\ records' = (_instance'.id :> ModelInit(Meta, cleaned_data)) @@ records
                  ELSE /\ _instance' = _instance
                       /\ \A f \in model_fields(Meta) :
                             records'[_instance.id][f] =
                                 IF DictHas(cleaned_data, f) THEN DictGet(cleaned_data, f)
                                 ELSE records[_instance.id][f]
       /\ (ReadInstance /\ ~_instance_prepared /\ _validated /\ _errors = <<>>
              /\ Meta.model # None
              /\ (_instance # None \/ DictKeys(cleaned_data) \subseteq model_fields(Meta)))
            => ret'.exc = ""
       /\ _instance_prepared => (_instance_prepared' /\ _instance' = _instance)]_vars

\* A later read returned the record although cleaned_data no longer agrees
\* with it
C2_Witness ==
    /\ ret.op = "instance" /\ ret.exc = "" /\ ret.val = _instance
    /\ _instance_prepared
    /\ DictHas(cleaned_data, f_name)
    /\ DictGet(cleaned_data, f_name) # records[_instance.id][f_name]


\* A filter name the schema allows: a field itself, or a field and one of
\* its operators
ValidFilter(search_fields, name) ==
    \/ DictHas(search_fields, name)
    \/ /\ DictHas(search_fields, NameWithoutOp(name))
       /\ OpOf(name) \in Range(DictGet(search_fields, NameWithoutOp(name)))

\* A new controller of the same class for the parameters d
Controller(d) ==
    [data |-> d, partial |-> partial, cleaned_data |-> <<>>, _errors |-> <<>>,
     _warnings |-> <<>>, _validated |-> FALSE, _instance |-> None,
     _instance_prepared |-> FALSE, spans |-> <<>>]

\* The flat keys of the request, none of them reserved
FlatKeysOnly ==
    /\ data.t = "QueryDict"
    /\ data.q # <<>>
    /\ \A i \in 1..Len(data.q) :
          /\ data.q[i][1] \notin Range(Meta.validation_order) \cup {s_format}
          /\ Len(data.q[i][2]) = 1

\* Every flat key is K for a valid filter K (and is not taken for an exclude)
LegacySearch ==
    /\ FlatKeysOnly
    /\ \A i \in 1..Len(data.q) :
          /\ ~StartsWith(data.q[i][1], s_exclude__)
          /\ ValidFilter(Meta.search_fields, data.q[i][1])

\* Every flat key is exclude__K for a valid filter K
LegacyExclude ==
    /\ FlatKeysOnly
    /\ \A i \in 1..Len(data.q) :
          /\ StartsWith(data.q[i][1], s_exclude__)
          /\ ValidFilter(Meta.search_fields, DropFirst(data.q[i][1], Len(s_exclude__)))

\* The structured requests that carry the same entries K -> V
StructuredSearch == DeepData(s_search, [i \in 1..Len(data.q) |-> <<data.q[i][1], data.q[i][2][1]>>])

StructuredExclude ==
    DeepData(s_exclude, [i \in 1..Len(data.q) |->
                            <<DropFirst(data.q[i][1], Len(s_exclude__)), data.q[i][2][1]>>])

\* The warnings w without the deprecation warnings
RECURSIVE WithoutDeprecation(_)
WithoutDeprecation(w) ==
    IF w = <<>> THEN <<>>
    ELSE IF Head(w).kind = "DeprecationWarning" THEN WithoutDeprecation(Tail(w))
    ELSE <<Head(w)>> \o WithoutDeprecation(Tail(w))

\* The pass over the flat request against the pass r over the structured one
SameAsStructured(key, r) ==
    /\ DictGet(cleaned_data, key) = DictGet(r.self.cleaned_data, key)
    /\ WithoutDeprecation(_warnings) = r.self._warnings
    /\ Len(_warnings) = Len(r.self._warnings) + 1

\* C3: the pass over flat legacy keys that are valid filters gives the same
\* cleaned_data['search'] (['exclude'] for keys written exclude__K) as the pass
\* over the structured map of the same entries, and the same warnings plus
\* exactly one DeprecationWarning.
C3_FlatEqualsStructured ==
    (FirstPassDone /\ ~partial)
        => /\ LegacySearch => SameAsStructured(s_search, is_valid(Meta, Controller(StructuredSearch)))
           /\ LegacyExclude => SameAsStructured(s_exclude, is_valid(Meta, Controller(StructuredExclude)))

\* The half of C3 that is about validate_search
C3_SearchHalf ==
    (FirstPassDone /\ ~partial /\ LegacySearch)
        => SameAsStructured(s_search, is_valid(Meta, Controller(StructuredSearch)))


\* The validators of search and exclude were called in the pass
ValidatorRan(field) ==
    /\ FirstPassDone
    /\ field \in Range(Meta.validation_order)
    /\ ~partial \/ DictHas(DataPairs(data), field)

SearchRan == ValidatorRan(s_search)
ExcludeRan == ValidatorRan(s_exclude)

\* The entries each validator works on: the structured map when the request
\* has one, the flat keys otherwise
SearchEntries ==
    IF DictHas(DataPairs(data), s_search)
    THEN DirtyValue(data, s_search).d
    ELSE SearchCompatItems(DataItems(data), Meta.validation_order)

ExcludeEntries ==
    IF DictHas(DataPairs(data), s_exclude)
    THEN DirtyValue(data, s_exclude).d
    ELSE ExcludeCompatItems(DataItems(data), Meta.validation_order, <<>>)

\* The number of warnings of one kind that name a filter
WarningsFor(kind, name) ==
    Cardinality({i \in 1..Len(_warnings) :
                    _warnings[i].kind = kind /\ _warnings[i].name = name})

\* Neither the name nor the name without its last segment is a schema field
NotInAllowlist(name) ==
    /\ name \notin DictKeys(Meta.search_fields)
    /\ NameWithoutOp(name) \notin DictKeys(Meta.search_fields)

\* An entry that is dropped: one warning, and no key of its name
Dropped(entries, i, kind, key) ==
    /\ WarningsFor(kind, entries[i][1]) = 1
    /\ ~DictHas(DictGet(cleaned_data, key).d, entries[i][1])

\* C4: an entry whose name is not in the allowlist of the schema is dropped:
\* exactly one warning names it, and cleaned_data['search'] (['exclude']) has
\* no key of that name after the pass.
C4_UnknownFilterDropped ==
    /\ SearchRan =>
          \A i \in 1..Len(SearchEntries) :
              NotInAllowlist(SearchEntries[i][1])
                  => Dropped(SearchEntries, i, "SearchFilterWarning", s_search)
    /\ ExcludeRan =>
          \A i \in 1..Len(ExcludeEntries) :
              NotInAllowlist(ExcludeEntries[i][1])
                  => Dropped(ExcludeEntries, i, "ExcludeFilterWarning", s_exclude)

\* A structured search of two entries: the unknown one was dropped, the
\* other one kept
C4_Witness ==
    /\ SearchRan
    /\ DictHas(DataPairs(data), s_search)
    /\ Len(SearchEntries) = 2
    /\ NotInAllowlist(SearchEntries[1][1])
    /\ WarningsFor("SearchFilterWarning", SearchEntries[1][1]) = 1
    /\ DictKeys(DictGet(cleaned_data, s_search).d) = {SearchEntries[2][1]}

\* The warnings of the allowlist checks that name a filter
AllowlistWarningsFor(kind, name) ==
    Cardinality({i \in 1..Len(_warnings) :
                    /\ _warnings[i].kind = kind /\ _warnings[i].name = name
                    /\ _warnings[i].why \in {"invalid filter", "invalid operator"}})

\* C5: an entry passes the allowlist exactly when its name is a schema field,
\* or its name without the last segment is one and the last segment is an
\* operator of that field; every other entry is dropped with a warning.
C5_KeptIffValid ==
    /\ SearchRan =>
          \A i \in 1..Len(SearchEntries) :
              IF ValidFilter(Meta.search_fields, SearchEntries[i][1])
              THEN AllowlistWarningsFor("SearchFilterWarning", SearchEntries[i][1]) = 0
              ELSE Dropped(SearchEntries, i, "SearchFilterWarning", s_search)
    /\ ExcludeRan =>
          \A i \in 1..Len(ExcludeEntries) :
              IF ValidFilter(Meta.search_fields, ExcludeEntries[i][1])
              THEN AllowlistWarningsFor("ExcludeFilterWarning", ExcludeEntries[i][1]) = 0
              ELSE Dropped(ExcludeEntries, i, "ExcludeFilterWarning", s_exclude)


\* The tokens of a raw list value, read off in one scan: a comma ends a
\* token, bracket and quote characters are skipped, a token is trimmed and a
\* blank one is left out
Trimmed(token) ==
    LET inked == {i \in 1..Len(token) : token[i] \notin Whitespace}
    IN IF inked = {} THEN <<>>
       ELSE LET first == CHOOSE i \in inked : \A j \in inked : i <= j
                last == CHOOSE i \in inked : \A j \in inked : i >= j
            IN SubSeq(token, first, last)

TokenOf(cur) == IF Trimmed(cur) = <<>> THEN <<>> ELSE <<Trimmed(cur)>>

RECURSIVE Tokens(_, _)
Tokens(rest, cur) ==
    IF rest = <<>> THEN TokenOf(cur)
    ELSE IF Head(rest) = "," THEN TokenOf(cur) \o Tokens(Tail(rest), <<>>)
    ELSE IF Head(rest) \in {"[", "]", "(", ")", "'", "\""} THEN Tokens(Tail(rest), cur)
    ELSE Tokens(Tail(rest), Append(cur, Head(rest)))

\* An allowed filter of the operator op: the name is not a field itself, its
\* prefix is one, and op is its last segment and an operator of that field
AllowedWithOp(name, op) ==
    /\ ~DictHas(Meta.search_fields, name)
    /\ ValidFilter(Meta.search_fields, name)
    /\ OpOf(name) = op

\* An entry that is stored under its name with the list value
StoredList(entries, i, kind, key, value) ==
    /\ WarningsFor(kind, entries[i][1]) = 0
    /\ DictHas(DictGet(cleaned_data, key).d, entries[i][1])
    /\ DictGet(DictGet(cleaned_data, key).d, entries[i][1]) = ListV(value)

\* The tokens of "(10, 15)"
v_ten == <<"1", "0">>
v_fifteen == <<"1", "5">>

\* The verdict on one range entry
RangeSettled(entries, i, kind, key) ==
    LET tokens == Tokens(entries[i][2].s, <<>>)
    IN /\ IF Len(tokens) = 2
          THEN StoredList(entries, i, kind, key, tokens)
          ELSE Dropped(entries, i, kind, key)
       /\ entries[i][2].s = v_range2
            => StoredList(entries, i, kind, key, <<v_ten, v_fifteen>>)
       /\ entries[i][2].s \in {v_range3, v_range1, v_empty, v_brackets, v_abc}
            => Dropped(entries, i, kind, key)

\* C6: the value of an allowed range filter is stripped of brackets and
\* quotes, split on commas, trimmed and emptied of blank tokens; the entry is
\* stored as that list exactly when the list has 2 elements ("(10, 15)" is
\* stored as ["10", "15"]), and with any other length it is dropped with one
\* warning and no key.
C6_RangeNeedsTwo ==
    /\ SearchRan =>
          \A i \in 1..Len(SearchEntries) :
              AllowedWithOp(SearchEntries[i][1], s_range)
                  => RangeSettled(SearchEntries, i, "SearchFilterWarning", s_search)
    /\ ExcludeRan =>
          \A i \in 1..Len(ExcludeEntries) :
              AllowedWithOp(ExcludeEntries[i][1], s_range)
                  => RangeSettled(ExcludeEntries, i, "ExcludeFilterWarning", s_exclude)

\* A search of two ranges: "(10, 15)" was stored as ["10", "15"], and
\* "(10, 15, 20)" was dropped with one warning
C6_Witness ==
    /\ SearchRan
    /\ SearchEntries = << <<Dunder(f_id, s_range), Str(v_range2)>>,
                          <<Dunder(f_created, s_range), Str(v_range3)>> >>
    /\ DictGet(cleaned_data, s_search) =
           DictV(<< <<Dunder(f_id, s_range), ListV(<<v_ten, v_fifteen>>)>> >>)
    /\ _warnings = <<Warning("SearchFilterWarning", "invalid range", Dunder(f_created, s_range))>>

\* The verdict on one in entry
InSettled(entries, i, kind, key) ==
    /\ StoredList(entries, i, kind, key, Tokens(entries[i][2].s, <<>>))
    /\ entries[i][2].s = v_list
         => StoredList(entries, i, kind, key, <<<<"a">>, <<"b">>, <<"b">>>>)
    /\ entries[i][2].s = v_gaps
         => StoredList(entries, i, kind, key, <<<<"a">>, <<"b">>>>)

\* C7: the value stored for an allowed in filter is the list of the
\* comma-separated tokens of the raw value, brackets and quotes removed, each
\* token trimmed, in the order of the input, duplicates kept and empty tokens
\* removed ("[a, b, b]" is stored as ["a", "b", "b"]).
C7_InKeepsTokens ==
    /\ SearchRan =>
          \A i \in 1..Len(SearchEntries) :
              AllowedWithOp(SearchEntries[i][1], s_in)
                  => InSettled(SearchEntries, i, "SearchFilterWarning", s_search)
    /\ ExcludeRan =>
          \A i \in 1..Len(ExcludeEntries) :
              AllowedWithOp(ExcludeEntries[i][1], s_in)
                  => InSettled(ExcludeEntries, i, "ExcludeFilterWarning", s_exclude)

\* " a,, 'b' ," was given to name__in and stored as ["a", "b"]
C7_Witness ==
    /\ SearchRan
    /\ SearchEntries = << <<Dunder(f_name, s_in), Str(v_gaps)>> >>
    /\ DictGet(cleaned_data, s_search) =
           DictV(<< <<Dunder(f_name, s_in), ListV(<<<<"a">>, <<"b">>>>)>> >>)
    /\ _warnings = <<>>


\* The input of a paging validator as a number: None when it is absent or
\* not an integer
Number(x) == IF IntRaises(x) = "" THEN IntV(IntOf(x)) ELSE None

\* The literal the request carries for field, when it carries one value
Given(field, literal) ==
    /\ data.t = "QueryDict"
    /\ DictHas(data.q, field)
    /\ DictGet(data.q, field) = <<Str(literal)>>

\* C8: cleaned_data['limit'] is the input integer when it lies in
\* [1, max_list_limit], and normal_list_limit in every other case (absent,
\* not a number, 0, negative, above max_list_limit); with
\* 1 <= normal_list_limit <= max_list_limit it is always in
\* [1, max_list_limit].
C8_LimitInBounds ==
    ValidatorRan(s_limit) =>
        LET n == Number(DirtyValue(data, s_limit))
            limit == DictGet(cleaned_data, s_limit)
        IN /\ DictHas(cleaned_data, s_limit)
           /\ limit.t = "int"
           /\ limit.i = IF n # None /\ n.i >= 1 /\ n.i <= Meta.max_list_limit
                        THEN n.i ELSE Meta.normal_list_limit
           /\ (1 <= Meta.normal_list_limit /\ Meta.normal_list_limit <= Meta.max_list_limit)
                => (1 <= limit.i /\ limit.i <= Meta.max_list_limit)
           /\ (\E x \in {v_zero, v_neg, v_abc, v_over, v_empty, v_float} : Given(s_limit, x))
                => limit.i = Meta.normal_list_limit
           /\ ~DictHas(DataPairs(data), s_limit) => limit.i = Meta.normal_list_limit
           /\ Given(s_limit, v_one) => limit.i = 1
           /\ Given(s_limit, v_seven) => limit.i = 7
           /\ Given(s_limit, v_max) => limit.i = Meta.max_list_limit

\* limit=0 was given and the normal limit was stored
C8_Witness ==
    /\ ValidatorRan(s_limit)
    /\ Given(s_limit, v_zero)
    /\ DictGet(cleaned_data, s_limit) = IntV(Meta.normal_list_limit)
    /\ Meta.normal_list_limit # 0

\* C9: cleaned_data['page'] is max(n, 0) when the input is the integer n, and
\* 0 when the input is absent or not a number; it is never negative.
C9_PageFloored ==
    ValidatorRan(s_page) =>
        LET n == Number(DirtyValue(data, s_page))
            page == DictGet(cleaned_data, s_page)
        IN /\ DictHas(cleaned_data, s_page)
           /\ page.t = "int"
           /\ page.i = IF n = None THEN 0 ELSE IF n.i < 0 THEN 0 ELSE n.i
           /\ page.i >= 0
           /\ (\E x \in {v_neg, v_abc, v_empty, v_zero, v_float} : Given(s_page, x)) => page.i = 0
           /\ ~DictHas(DataPairs(data), s_page) => page.i = 0
           /\ Given(s_page, v_seven) => page.i = 7
           /\ Given(s_page, v_over) => page.i = 101

\* page=-5 was given and page 0 was stored
C9_Witness ==
    /\ ValidatorRan(s_page)
    /\ Given(s_page, v_neg)
    /\ DictGet(cleaned_data, s_page) = IntV(0)

\* The order the claim gives for the input x
OrderWanted(allowed_ordering, x) ==
    IF x = None THEN allowed_ordering[1]
    ELSE LET desc == x.s # <<>> /\ Head(x.s) = "-"
             name == IF desc THEN Tail(x.s) ELSE x.s
         IN IF name \in Range(allowed_ordering)
            THEN (IF desc THEN <<"-">> ELSE <<>>) \o name
            ELSE allowed_ordering[1]

\* C10: with a non-empty allowed_ordering, an absent order gives
\* allowed_ordering[0]; an order s gives its name (s without its one leading
\* '-') with the '-' kept when the name is allowed, and allowed_ordering[0]
\* ascending otherwise; no error and no warning is added, and the result is f
\* or '-'+f for an allowed f.
C10_OrderResolved ==
    (ValidatorRan(s_order) /\ Meta.allowed_ordering # <<>>
        /\ DirtyValue(data, s_order).t \in {"None", "str"}) =>
        /\ DictHas(cleaned_data, s_order)
        /\ DictGet(cleaned_data, s_order) =
               Str(OrderWanted(Meta.allowed_ordering, DirtyValue(data, s_order)))
        /\ \E f \in Range(Meta.allowed_ordering) :
               DictGet(cleaned_data, s_order) \in {Str(f), Str(<<"-">> \o f)}
        /\ ~DictHas(_errors, s_order)
        /\ DictHas(DataPairs(data), s_order) => _warnings = <<>>


\* The payload of the errors module for a code
Payload(code) == DictV(<< <<s_error_code, code>>, <<s_detail, DictGet(errors, code.s)>> >>)

\* The recorded codes the errors module does not define
MissingCodes == {c \in Range(DictValues(_errors)) : ~DictHas(errors, c.s)}

\* C11: a read of errors raises KeyError, naming every recorded code that
\* the errors module does not define, when there is such a code; otherwise
\* it returns a map whose keys are exactly the fields with an error, each
\* with the payload of its code.  A returned map never lacks a field that
\* has an error.
C11_ErrorsComplete ==
    [][ReadErrors =>
          /\ IF MissingCodes # {}
             THEN /\ ret'.exc = "KeyError"
                  /\ \A c \in MissingCodes : c.s \in Range(Split(ret'.val.s, s_comma_space))
             ELSE /\ ret'.exc = ""
                  /\ \A f \in DictKeys(_errors) :
                        DictGet(ret'.val.d, f) = Payload(DictGet(_errors, f))
          /\ ret'.exc = "" => (ret'.val.t = "dict" /\ DictKeys(ret'.val.d) = DictKeys(_errors))
          /\ UNCHANGED <<_errors, cleaned_data, _warnings, _validated>>]_vars

\* Two fields carry codes the errors module does not define, and the read
\* raised, naming both
C11_Witness ==
    /\ ret.op = "errors" /\ ret.exc = "KeyError"
    /\ Len(_errors) = 2 /\ Cardinality(MissingCodes) = 2
    /\ ret.val = Str(ErrorCode(f_name) \o s_comma_space \o ErrorCode(f_note))


\* C12: in partial mode a validator whose name is not a key of the data is
\* not called: after the pass the name is a key of neither cleaned_data nor
\* the error map, and a skipped search or exclude validator has appended no
\* warning.
C12_PartialSkipsAbsent ==
    (FirstPassDone /\ partial) =>
        /\ \A field \in Range(validate_funcs(Meta, Meta.validation_order)) :
              ~DictHas(DataPairs(data), field)
                  => ~DictHas(cleaned_data, field) /\ ~DictHas(_errors, field)
        /\ (~DictHas(DataPairs(data), s_search) /\ ~DictHas(DataPairs(data), s_exclude))
              => _warnings = <<>>

\* A partial update that sent age only: name was neither defaulted nor
\* flagged
C12_Witness ==
    /\ FirstPassDone /\ partial
    /\ f_name \in Range(validate_funcs(Meta, Meta.validation_order))
    /\ DictKeys(DataPairs(data)) = {f_age}
    /\ DictKeys(cleaned_data) = {f_age}
    /\ _errors = <<>>
    /\ ret.val = BoolV(TRUE)


\* A call of is_valid has returned
PassReturned == ret.op = "is_valid" /\ ret.exc = ""

\* The validators the pass called
Called ==
    {field \in Range(validate_funcs(Meta, Meta.validation_order)) :
        ~partial \/ DictHas(DataPairs(data), field)}

\* The validators that return an error code for the data: those of the
\* derived controller that are given nothing
Failing ==
    {field \in Called \cap Meta.validate_methods :
        DirtyValue(data, field) \in {None, Str(<<>>)}}

\* C13: is_valid returns True exactly when no validator returned an error
\* code, that is when the error map is empty; a validator that returns an
\* error code does not keep the later ones from running (each validator
\* called leaves its field in cleaned_data or in the error map); the warnings
\* have no part in the result.
C13_ValidIffNoErrors ==
    PassReturned =>
        /\ ret.val = BoolV(_errors = <<>>)
        /\ DictKeys(_errors) = Failing
        /\ ret.val = BoolV(Failing = {})
        /\ \A field \in Called : DictHas(cleaned_data, field) \/ DictHas(_errors, field)
        /\ _validated

\* name was refused, and the validators after it (note, limit) ran all the
\* same
C13_Witness ==
    /\ FirstPassDone /\ ~partial
    /\ Meta.validation_order = <<f_name, f_note, s_limit>>
    /\ ret.val = BoolV(FALSE)
    /\ DictKeys(_errors) = {f_name}
    /\ DictKeys(cleaned_data) = {f_note, s_limit}


\* The pass, returned or not, called the validator of field: the pass did
\* not skip it, and every validator before it has written its value
PassCalled(field) ==
    /\ ret.op = "is_valid"
    /\ \E i \in 1..Len(validate_funcs(Meta, Meta.validation_order)) :
          /\ validate_funcs(Meta, Meta.validation_order)[i] = field
          /\ validate_funcs(Meta, Meta.validation_order)[i] \in Called
          /\ \A j \in 1..(i - 1) :
                validate_funcs(Meta, Meta.validation_order)[j] \in Called
                    => \/ DictHas(cleaned_data, validate_funcs(Meta, Meta.validation_order)[j])
                       \/ DictHas(_errors, validate_funcs(Meta, Meta.validation_order)[j])

\* C14: validate_search and validate_exclude never raise and never return
\* an error code, whatever the pass hands them (nothing, a map of entries, a
\* text or several texts): once called, each has written cleaned_data['search']
\* (['exclude']) and left no error for its field.
C14_FiltersNeverRaise ==
    /\ PassCalled(s_search)
          => DictHas(cleaned_data, s_search) /\ ~DictHas(_errors, s_search)
    /\ PassCalled(s_exclude)
          => DictHas(cleaned_data, s_exclude) /\ ~DictHas(_errors, s_exclude)


\* C15: with a non-empty allowed_ordering the validators of limit, page and
\* order never raise and never return an error code, whatever the pass hands
\* them (nothing, one trimmed text, or the list of the texts of a key sent
\* more than once): once called, each has written its value to cleaned_data
\* and left no error for its field.
C15_PagingNeverRaises ==
    Meta.allowed_ordering # <<>> =>
        \A field \in {s_limit, s_page, s_order} :
            PassCalled(field) => DictHas(cleaned_data, field) /\ ~DictHas(_errors, field)


\* C16: a second call of is_valid, made on the controller as the first call
\* left it, leaves cleaned_data, the error map and the warnings as they were
\* and returns the same boolean.
C16_SecondPassChangesNothing ==
    [][(IsValid /\ PassReturned)
          => /\ UNCHANGED <<cleaned_data, _errors, _warnings>>
             /\ ret'.exc = "" /\ ret'.val = ret.val]_vars


\* C17: in update mode the read of instance that patches the prior record
\* returns that record; the attributes set on it are exactly the entries of
\* cleaned_data whose key is a field of Meta.model, every other attribute
\* keeps its value, and a key of cleaned_data that is not a model field is
\* not set on it.
C17_UpdatePatchesModelFields ==
    [][(ReadInstance /\ _instance # None /\ ~_instance_prepared /\ ret'.exc = "")
          => /\ ret'.val = _instance /\ _instance' = _instance
             /\ DOMAIN records' = DOMAIN records
             /\ DOMAIN records'[_instance.id] = DOMAIN records[_instance.id]
             /\ \A a \in DOMAIN records[_instance.id] :
                   records'[_instance.id][a] =
                       IF a \in model_fields(Meta) /\ DictHas(cleaned_data, a)
                       THEN DictGet(cleaned_data, a)
                       ELSE records[_instance.id][a]]_vars

\* An update validated name, note and limit: the record has the new name,
\* its old age and its old note, and no limit
C17_Witness ==
    /\ ret.op = "instance" /\ ret.exc = "" /\ ret.val = Ref(1)
    /\ DictKeys(cleaned_data) = {f_name, f_note, s_limit}
    /\ records[1][f_name] = DictGet(cleaned_data, f_name)
    /\ records[1][f_name] # PriorRecord(Meta)[f_name]
    /\ records[1][f_age] = PriorRecord(Meta)[f_age]
    /\ records[1][f_note] = PriorRecord(Meta)[f_note]
    /\ records[1][f_note] # DictGet(cleaned_data, f_note)
    /\ s_limit \notin DOMAIN records[1]


\* An entry that is stored under its name with the value
Stored(entries, i, kind, key, value) ==
    /\ WarningsFor(kind, entries[i][1]) = 0
    /\ DictHas(DictGet(cleaned_data, key).d, entries[i][1])
    /\ DictGet(DictGet(cleaned_data, key).d, entries[i][1]) = value

\* The verdict on one entry of a date-part operator
DatePartSettled(entries, i, kind, key) ==
    /\ IF Number(Str(entries[i][2].s)) # None
       THEN Stored(entries, i, kind, key, Number(Str(entries[i][2].s)))
       ELSE Dropped(entries, i, kind, key)
    /\ DictHas(DictGet(cleaned_data, key).d, entries[i][1])
         => DictGet(DictGet(cleaned_data, key).d, entries[i][1]).t = "int"

\* C18: the value stored for an allowed filter of a date-part operator
\* (year, month, day, week_day, hour, minute) is always the integer parsed
\* from the raw value; for a raw value that is not an integer, the texts
\* "true" and "false" in any letter case among them, the entry is dropped
\* with one warning.
C18_DatePartIsInteger ==
    /\ SearchRan =>
          \A i \in 1..Len(SearchEntries) :
              (\E op \in DatePartOps : AllowedWithOp(SearchEntries[i][1], op))
                  => DatePartSettled(SearchEntries, i, "SearchFilterWarning", s_search)
    /\ ExcludeRan =>
          \A i \in 1..Len(ExcludeEntries) :
              (\E op \in DatePartOps : AllowedWithOp(ExcludeEntries[i][1], op))
                  => DatePartSettled(ExcludeEntries, i, "ExcludeFilterWarning", s_exclude)


\* The raw value is the word, in any letter case
Textually(raw, word) ==
    /\ Len(raw) = Len(word)
    /\ \A i \in 1..Len(word) :
          raw[i] = word[i] \/ <<raw[i], word[i]>> \in
              {<<"T", "t">>, <<"R", "r">>, <<"U", "u">>, <<"E", "e">>, <<"F", "f">>,
               <<"A", "a">>, <<"L", "l">>, <<"S", "s">>}

\* No operator family applies to the allowed filter: it has no operator, or
\* one that is not in, range, isnull or a date part
NoFamily(name) ==
    /\ ValidFilter(Meta.search_fields, name)
    /\ \/ DictHas(Meta.search_fields, name)
       \/ OpOf(name) \notin {s_in, s_range, s_isnull} \cup DatePartOps

\* The verdict on one entry that is an isnull filter or of no family
BooleanSettled(entries, i, kind, key) ==
    LET raw == entries[i][2].s
    IN /\ AllowedWithOp(entries[i][1], s_isnull)
            => Stored(entries, i, kind, key, BoolV(Textually(raw, s_true)))
       /\ (NoFamily(entries[i][1]) /\ AllowlistWarningsFor(kind, entries[i][1]) = 0)
            => /\ DictHas(DictGet(cleaned_data, key).d, entries[i][1])
               /\ IF Textually(raw, s_true) \/ Textually(raw, s_false)
                  THEN Stored(entries, i, kind, key, BoolV(Textually(raw, s_true)))
                  ELSE DictGet(DictGet(cleaned_data, key).d, entries[i][1]).t = "str"

\* C19: the value stored for an allowed isnull filter is the boolean "the
\* raw value is true in any letter case", so False for every other raw value;
\* the value stored for a filter of no operator family that the allowlist
\* has let through is a boolean exactly when the raw value is true or false
\* in any letter case, and a string otherwise.
C19_BooleanCoercion ==
    /\ SearchRan =>
          \A i \in 1..Len(SearchEntries) :
              BooleanSettled(SearchEntries, i, "SearchFilterWarning", s_search)
    /\ ExcludeRan =>
          \A i \in 1..Len(ExcludeEntries) :
              BooleanSettled(ExcludeEntries, i, "ExcludeFilterWarning", s_exclude)

\* id__isnull=TRUE was stored as True
C19_Witness ==
    /\ SearchRan
    /\ SearchEntries = << <<Dunder(f_id, s_isnull), Str(v_TRUE)>> >>
    /\ DictGet(cleaned_data, s_search) = DictV(<< <<Dunder(f_id, s_isnull), BoolV(TRUE)>> >>)


\* The verdict on one entry of no family whose value is not a boolean word
StringSettled(entries, i, kind, key) ==
    (/\ NoFamily(entries[i][1])
     /\ AllowlistWarningsFor(kind, entries[i][1]) = 0
     /\ ~Textually(entries[i][2].s, s_true) /\ ~Textually(entries[i][2].s, s_false))
        => Stored(entries, i, kind, key, Str(Trimmed(entries[i][2].s)))

\* C20: the value stored for an allowed filter of none of the list, boolean
\* and date-part families is the raw value as a string without its leading
\* and trailing whitespace, for an entry of the structured map and for a
\* legacy flat key alike.
C20_StringIsTrimmed ==
    /\ SearchRan =>
          \A i \in 1..Len(SearchEntries) :
              StringSettled(SearchEntries, i, "SearchFilterWarning", s_search)
    /\ ExcludeRan =>
          \A i \in 1..Len(ExcludeEntries) :
              StringSettled(ExcludeEntries, i, "ExcludeFilterWarning", s_exclude)


\* A value the cleaned map of filters may hold under key
CanonicalValue(key, value) ==
    \/ value.t \in {"str", "bool", "int"}
    \/ /\ value.t = "list"
       /\ Len(value.l) >= 1
       /\ \A i \in 1..Len(value.l) : value.l[i] \in Seq(STRING)
       /\ OpOf(key) = s_range => Len(value.l) = 2

\* C21: every value stored in cleaned_data['search'] or
\* cleaned_data['exclude'] after a pass is a string, a boolean, an integer or
\* a list of at least 1 string (of exactly 2 under a __range key); an in
\* filter whose raw value has no token is never stored as an empty list.
C21_CanonicalValues ==
    PassReturned =>
        \A field \in {s_search, s_exclude} :
            DictHas(cleaned_data, field) =>
                \A i \in 1..Len(DictGet(cleaned_data, field).d) :
                    CanonicalValue(DictGet(cleaned_data, field).d[i][1],
                                   DictGet(cleaned_data, field).d[i][2])


\* The request carries the structured map m under search and nothing else
SearchMapOnly ==
    /\ data.t = "QueryDict"
    /\ DictKeys(data.q) = {s_search}
    /\ DirtyValue(data, s_search).t = "dict"

\* The pass of a new controller over the same map sent under exclude
ExcludeTwin == is_valid(Meta, Controller(DeepData(s_exclude, DirtyValue(data, s_search).d)))

\* The warnings v are the warnings w, of the exclude kind
SameWarnings(w, v) ==
    /\ Len(w) = Len(v)
    /\ \A i \in 1..Len(w) :
          /\ w[i].kind = "SearchFilterWarning" /\ v[i].kind = "ExcludeFilterWarning"
          /\ w[i].why = v[i].why /\ w[i].name = v[i].name

\* C22: for the same structured map of entries and the same schema,
\* validate_exclude leaves in cleaned_data['exclude'] what validate_search
\* leaves in cleaned_data['search'], and appends as many warnings, for the
\* same entries.
C22_SearchExcludeSymmetric ==
    (FirstPassDone /\ ~partial /\ SearchMapOnly) =>
        /\ ExcludeTwin.exc = "" /\ ExcludeTwin.val = ret.val
        /\ DictGet(ExcludeTwin.self.cleaned_data, s_exclude) = DictGet(cleaned_data, s_search)
        /\ SameWarnings(_warnings, ExcludeTwin.self._warnings)

\* A map of a kept list and a dropped range, with the same outcome under
\* exclude
C22_Witness ==
    /\ FirstPassDone /\ ~partial /\ SearchMapOnly
    /\ DirtyValue(data, s_search).d = << <<Dunder(f_name, s_in), Str(v_list)>>,
                                         <<Dunder(f_id, s_range), Str(v_range3)>> >>
    /\ DictKeys(DictGet(ExcludeTwin.self.cleaned_data, s_exclude).d) = {Dunder(f_name, s_in)}
    /\ Len(ExcludeTwin.self._warnings) = 1
    /\ Len(_warnings) = 1


\* The filter names a validator has dealt with: those it stored, and those
\* its warnings name
Handled(field, kind) ==
    DictKeys(DictGet(cleaned_data, field).d)
        \cup {_warnings[i].name : i \in {j \in 1..Len(_warnings) : _warnings[j].kind = kind}}

\* The flat keys of a legacy request that are not reserved validator names
LegacyKeys == {k \in DictKeys(DataPairs(data)) : k \notin Range(Meta.validation_order)}

\* C23: in legacy mode a flat key is input of exclude exactly when it starts
\* with exclude__, under the name that is the key without that leading
\* prefix (an exclude__ further inside the key is kept); every other key that
\* is not reserved is input of search under its own name; a reserved
\* validator name is a filter of neither.
C23_LegacyPartition ==
    (FirstPassDone /\ ~partial /\ SearchRan /\ ExcludeRan
        /\ ~DictHas(DataPairs(data), s_search) /\ ~DictHas(DataPairs(data), s_exclude)) =>
        /\ Handled(s_exclude, "ExcludeFilterWarning") =
               {DropFirst(k, Len(s_exclude__)) : k \in {l \in LegacyKeys : StartsWith(l, s_exclude__)}}
        /\ Handled(s_search, "SearchFilterWarning") =
               {k \in LegacyKeys : ~StartsWith(k, s_exclude__)}


\* The controller has a callable validate_<name>
HasValidator(name) == name \in {s_search, s_exclude, s_limit, s_page, s_order} \cup Meta.validate_methods

\* The validator a warning comes from
FromSearch(w) == w.kind = "SearchFilterWarning" \/ (w.kind = "DeprecationWarning" /\ w.why = "search")
FromExclude(w) == w.kind = "ExcludeFilterWarning" \/ (w.kind = "DeprecationWarning" /\ w.why = "exclude")

\* C24: in a pass that is not partial the validators are called in the
\* order of Meta.validation_order, each name that has a callable
\* validate_<name> once and no other name; so the warnings of an earlier
\* validator come before the warnings of a later one (those of search before
\* those of exclude in the default order).
C24_ValidationOrder ==
    (FirstPassDone /\ ~partial) =>
        /\ spans = SelectSeq(Meta.validation_order, HasValidator)
        /\ \A i, j \in 1..Len(spans) : i # j => spans[i] # spans[j]
        /\ \A i, j \in 1..Len(_warnings) :
              (FromSearch(_warnings[i]) /\ FromExclude(_warnings[j])) => i < j
        /\ \A i \in 1..Len(_warnings) : FromSearch(_warnings[i]) \/ FromExclude(_warnings[i])

\* The request named exclude before search: the validators ran in the order
\* of validation_order and the warning of search comes first
C24_Witness ==
    /\ FirstPassDone /\ ~partial
    /\ Len(DataPairs(data)) = 2
    /\ DataPairs(data)[1][1] = s_exclude /\ DataPairs(data)[2][1] = s_search
    /\ spans = <<s_search, s_exclude, s_limit, s_page, s_order>>
    /\ _warnings = <<Warning("SearchFilterWarning", "invalid filter", f_bogus),
                     Warning("ExcludeFilterWarning", "invalid filter", f_bogus)>>


\* The values the request carries for a key
ValuesOf(field) ==
    IF DictHas(data.q, field) THEN DictGet(data.q, field) ELSE <<>>

\* The value the validator of field is to be given
RawValue(field) ==
    IF Len(ValuesOf(field)) = 0 THEN None
    ELSE IF Len(ValuesOf(field)) = 1
    THEN IF ValuesOf(field)[1].t = "str"
         THEN Str(Trimmed(ValuesOf(field)[1].s))
         ELSE ValuesOf(field)[1]
    ELSE ListV(ValuesOf(field))

\* C25: from a source with multi-valued lookup, is_valid passes a validator
\* None when the key is absent (and calls it all the same when partial is
\* False), the value itself when the key has one value, a string without its
\* leading and trailing whitespace, and the whole list when the key has
\* several values.  A validator of the derived controller shows the value it
\* was given: it stores it, or refuses None and the empty string.
C25_DirtyValue ==
    (FirstPassDone /\ ~partial /\ data.t = "QueryDict") =>
        \A field \in Meta.validate_methods \cap Range(Meta.validation_order) :
            /\ field \in Range(spans)
            /\ IF RawValue(field) \in {None, Str(<<>>)}
               THEN DictHas(_errors, field) /\ ~DictHas(cleaned_data, field)
               ELSE /\ ~DictHas(_errors, field) /\ DictHas(cleaned_data, field)
                    /\ DictGet(cleaned_data, field) = RawValue(field)

\* name was sent twice and note with spaces around it: the validator of
\* name was given the list, the one of note the trimmed text
C25_Witness ==
    /\ FirstPassDone /\ ~partial
    /\ DictKeys(cleaned_data) = {f_name, f_note, s_limit}
    /\ DictGet(cleaned_data, f_name) = ListV(<<Str(v_abc), Str(v_padded)>>)
    /\ DictGet(cleaned_data, f_note) = Str(<<"x">>)


\* No name is a key of cleaned_data and of the error map
NoFieldInBoth == DictKeys(cleaned_data) \cap DictKeys(_errors) = {}

\* C26: a pass of is_valid puts no validator name in both cleaned_data and
\* the error map: they have no key in common after the first pass, and a
\* later pass gives them none; a field for which a validator reports an error
\* code gets no entry in cleaned_data.
C26_ErrorOrCleaned ==
    [][IsValid => /\ NoFieldInBoth => NoFieldInBoth'
                  /\ \A field \in DictKeys(_errors') \ DictKeys(_errors) :
                        ~DictHas(cleaned_data', field)]_vars

\* A second pass over a request without a name: name has its error code and
\* no entry in cleaned_data, age has its value
C26_Witness ==
    /\ ret.op = "is_valid" /\ ret.exc = "" /\ passes = 2
    /\ DictKeys(_errors) = {f_name}
    /\ DictKeys(cleaned_data) = {f_age}


\* The last call the wrapper of key made of its method is recent enough for
\* its result to be served: the wrapper caches (seconds > 0), the method
\* returned a result that is not None, and fewer than seconds have passed
Served(seconds, key) ==
    /\ seconds > 0
    /\ DictHas(calls, key)
    /\ DictGet(calls, key).result # None
    /\ now < DictGet(calls, key).at + seconds

\* C27: a call of a wrapper of memoize(seconds) whose method was last called
\* with the same arguments less than seconds ago (seconds > 0) and returned
\* a result that is not None returns that result and does not call the
\* method, whatever the errors module has become since; every other call
\* (seconds = 0, a None result, an expired entry, a first call) calls the
\* method and returns what it returns now.
C27_Memoize ==
    [][\A w \in Wrapped, args \in WrappedArgs :
          CallWrapped(w, args, LanguageKwargs) =>
              IF Served(w.seconds, cache_key(w.name, args, LanguageKwargs))
              THEN /\ ~memo'.called
                   /\ memo'.result =
                          DictGet(calls, cache_key(w.name, args, LanguageKwargs)).result
              ELSE /\ memo'.called
                   /\ memo'.result = Method(w.name, errors, args)]_vars

\* get_error_details was called for the code of name while the errors module
\* lacked it; the module now defines it, and a call made half an hour later
\* is served the empty map
C27_Witness ==
    /\ memo.key = cache_key("get_error_details", <<Str(ErrorCode(f_name))>>, LanguageKwargs)
    /\ ~memo.called
    /\ memo.result = DictV(<<>>)
    /\ errors = AllErrors
    /\ now = 1800


\* The record ref holds every entry of cleaned_data that is a field of the model
BuiltFromCleanedData(ref) ==
    \A f \in model_fields(Meta) \cap DictKeys(cleaned_data) :
        records'[ref.id][f] = DictGet(cleaned_data, f)

\* C28: a read of instance that raises changes nothing: the stored record,
\* the prepared flag, cleaned_data, the error map, the warnings, the validated
\* flag and every record are as before.  So a read made before is_valid
\* raises AttributeError, and a read made once is_valid has returned True is
\* refused by no check: it returns a record that holds the cleaned data,
\* and is kept as the prepared record (only the model's constructor can
\* still refuse, a key of cleaned_data that is no field of the model).
C28_FailedReadIsHarmless ==
    [][ReadInstance =>
          /\ ret'.exc # ""
                => UNCHANGED <<_instance, _instance_prepared, cleaned_data, _errors,
                               _warnings, _validated, records, passes, spans>>
          /\ passes = 0 => ret'.exc = "AttributeError"
          /\ (Meta.model # None /\ _validated /\ _errors = <<>>)
                => /\ ret'.exc # "AttributeError"
                   /\ ret'.exc = "TypeError"
                         => (_instance = None
                             /\ ~(DictKeys(cleaned_data) \subseteq model_fields(Meta)))
                   /\ ret'.exc = ""
                         => /\ ret'.val = _instance' /\ _instance_prepared'
                            /\ ~_instance_prepared => BuiltFromCleanedData(ret'.val)]_vars

\* A read made before is_valid was refused, and the controller is as it was
\* constructed
C28_Witness ==
    /\ ret.op = "instance" /\ ret.exc = "AttributeError"
    /\ Meta.model # None /\ passes = 0 /\ ~_validated
    /\ cleaned_data = <<>> /\ _errors = <<>> /\ _warnings = <<>>
    /\ _instance = None /\ ~_instance_prepared /\ records = <<>>


\* The key an entry is stored under: its name when that is a schema field,
\* else <field>__<operator>
CanonicalKey(name) ==
    IF name \in DictKeys(Meta.search_fields) THEN name
    ELSE NameWithoutOp(name) \o s_dunder \o OpOf(name)

\* The warnings of one kind
FilterWarnings(kind) == {j \in 1..Len(_warnings) : _warnings[j].kind = kind}

\* The entries whose canonical key is a key of the cleaned map
StoredEntries(entries, key) ==
    {i \in 1..Len(entries) :
        CanonicalKey(entries[i][1]) \in DictKeys(DictGet(cleaned_data, key).d)}

\* Every entry is stored or has exactly one warning, not both and not neither
Accounted(entries, kind, key) ==
    /\ \A i \in 1..Len(entries) :
          IF i \in StoredEntries(entries, key)
          THEN WarningsFor(kind, entries[i][1]) = 0
          ELSE WarningsFor(kind, entries[i][1]) = 1
    /\ Cardinality(FilterWarnings(kind)) = Len(entries) - Cardinality(StoredEntries(entries, key))
    /\ Cardinality(DictKeys(DictGet(cleaned_data, key).d)) + Cardinality(FilterWarnings(kind))
           = Len(entries)

\* C29: after one run of validate_search over n entries every entry is either
\* stored under its canonical key in cleaned_data['search'] or named by
\* exactly one SearchFilterWarning, never both and never neither; the number
\* of those warnings is the number of entries dropped, and stored keys plus
\* warnings is n.  The same holds for validate_exclude with its warnings.
C29_Accounting ==
    FirstPassDone =>
        /\ SearchRan => Accounted(SearchEntries, "SearchFilterWarning", s_search)
        /\ ExcludeRan => Accounted(ExcludeEntries, "ExcludeFilterWarning", s_exclude)

\* Two entries under exclude: one is stored, one has its warning
C29_Witness ==
    /\ FirstPassDone /\ ExcludeRan
    /\ Len(ExcludeEntries) = 2
    /\ Cardinality(StoredEntries(ExcludeEntries, s_exclude)) = 1
    /\ Cardinality(FilterWarnings("ExcludeFilterWarning")) = 1


\* The number of DeprecationWarnings of a validator
Deprecations(field) ==
    Cardinality({j \in 1..Len(_warnings) :
                    _warnings[j].kind = "DeprecationWarning" /\ _warnings[j].why = field})

\* The flat keys that qualify for search, and those that qualify for exclude
FlatSearchKeys ==
    {k \in DictKeys(DataPairs(data)) :
        k \notin Range(Meta.validation_order) /\ k # s_format /\ ~StartsWith(k, s_exclude__)}

FlatExcludeKeys ==
    {k \in DictKeys(DataPairs(data)) :
        k \notin Range(Meta.validation_order) /\ k # s_format /\ StartsWith(k, s_exclude__)}

\* The verdict for one validator: with a map under field, the validator has
\* dealt with the names of that map and no other, its cleaned map is the one
\* of a request that carries nothing but that map, and it has no deprecation
\* warning; without one, it has one deprecation warning when a flat key
\* qualifies and none otherwise
GrammarByPresence(field, why, kind, flat) ==
    IF DictHas(DataPairs(data), field)
    THEN /\ Handled(field, kind) = DictKeys(DirtyValue(data, field).d)
         /\ Len(DataPairs(data)) > 1
               => DictGet(cleaned_data, field) =
                      DictGet(is_valid(Meta, Controller(DeepData(field, DirtyValue(data, field).d)))
                                  .self.cleaned_data, field)
         /\ Deprecations(why) = 0
    ELSE Deprecations(why) = IF flat # {} THEN 1 ELSE 0

\* C30: each validator picks its grammar by the presence of its own
\* structured key.  With a map under search, an empty one too, no flat key
\* contributes to cleaned_data['search'] and no search DeprecationWarning is
\* appended, whatever is sent for exclude; likewise for exclude with the
\* exclude__ keys.  A validator appends a DeprecationWarning only when its
\* structured key is absent and a flat key qualifies for it, and then once.
C30_GrammarByPresence ==
    FirstPassDone =>
        /\ IF SearchRan
           THEN GrammarByPresence(s_search, "search", "SearchFilterWarning", FlatSearchKeys)
           ELSE Deprecations("search") = 0
        /\ IF ExcludeRan
           THEN GrammarByPresence(s_exclude, "exclude", "ExcludeFilterWarning", FlatExcludeKeys)
           ELSE Deprecations("exclude") = 0

\* A map under search beside flat keys: search kept the entry of its map
\* only and has no deprecation warning, exclude took its flat key and has one
C30_Witness ==
    /\ FirstPassDone /\ SearchRan /\ ExcludeRan
    /\ DictHas(DataPairs(data), s_search) /\ ~DictHas(DataPairs(data), s_exclude)
    /\ FlatSearchKeys # {} /\ FlatExcludeKeys # {}
    /\ DictKeys(DictGet(cleaned_data, s_search).d) = {Dunder(f_name, s_in)}
    /\ DictKeys(DictGet(cleaned_data, s_exclude).d) = {f_name}
    /\ Deprecations("search") = 0 /\ Deprecations("exclude") = 1

====
